---- MODULE Spec2Model ----
(***************************************************************************)
(* Thread-to-FSM compiler of veriloggen (veriloggen/thread/thread.py).     *)
(*                                                                         *)
(* The CompileVisitor walks the AST of a thread function and programs an   *)
(* FSM: states are integers, transitions are recorded by goto_from, and    *)
(* register assignments are attached to states.  The recursive visitor is  *)
(* modelled as a state machine: `ctl' is the stack of visit_* activations  *)
(* that are waiting for their body, and every action is one visit_*        *)
(* handler (or the part of it that runs before / after the body).  The     *)
(* program that is lowered is an input: in specification Spec it is any    *)
(* token sequence within the bounds, in SpecProg it is one of the programs *)
(* of the set Programs, whose emitted FSM is then executed clock by clock. *)
(***************************************************************************)
EXTENDS Integers, Sequences, FiniteSets, TLC

\* ---------------------------------------------------------------- bounds
MaxTokens == 8          \* statements / block ends of a program (Spec)
MaxCycles == 14         \* clock cycles of an execution (SpecProg)
MaxConst  == 3          \* largest integer constant in range(...) arguments
MaxWorker == 3          \* most statements in the function of a child thread
MaxSleep  == 8          \* most cycles asked of sleep
MaxRegs   == 3          \* registrations made from outside a thread (SpecReg)
MaxCreate == 2          \* threads created after the first one (SpecNames)
MaxDepth  == 3          \* inlined calls the interpreter's stack holds (SpecRec)

VARIABLES
    fsm,        \* FSM: current, recorded transitions, attached statements
    scope,      \* ScopeFrameList: frames and the current frame
    tmp_count,  \* _tmp_count, the counter behind generated names
    regs,       \* registers declared in the module, in declaration order
    ctl,        \* open visit_* activations, innermost last
    phase,      \* "lower", "done", "error" or "run"
    src,        \* the tokens visited so far (the program, as read)
    todo,       \* the tokens still to visit (SpecProg); <<>> in Spec
    free,       \* TRUE in Spec: the next token is any token
    hist,       \* history: every registered jump and every patch
    hw,         \* the emitted hardware while it runs: state, values, trace
    function_lib,           \* ThreadGenerator.function_lib: the functions
    intrinsic_functions,    \* ThreadGenerator.intrinsic_functions: the same
    intrinsic_methods,      \* ThreadGenerator.intrinsic_methods: str(func)
    threads     \* the ThreadInfo objects made by run, in order

lib == <<function_lib, intrinsic_functions, intrinsic_methods>>

vars == <<fsm, scope, tmp_count, regs, ctl, phase, src, todo, free, hist, hw,
          function_lib, intrinsic_functions, intrinsic_methods, threads>>

\* ------------------------------------------------------ names and IR nodes
NoState == 0 - 1
NoReg   == [base |-> "", sub |-> NoState, id |-> NoState, width |-> 0]

\* ThreadGenerator(m, clk, rst, datawidth=32)
datawidth == 32

\* a source name, and the name 'tmp_<v>' made by getTmpVariable
Name(s)      == [base |-> s, id |-> NoState]
\* an object of local_objects (a signal of the enclosing module)
ExtObj(s)    == [base |-> s, sub |-> NoState, id |-> NoState - 1, width |-> 0]
IsExt(r)     == r.id = NoState - 1

\* IR expression nodes (vtypes): kind, register operand, integer operand
Node(kind, r, k) == [kind |-> kind, reg |-> r, k |-> k]
None         == Node("None", NoReg, 0)
vInt(n)      == Node("Int", NoReg, n)
Var(r)       == Node("Var", r, 0)
Plus(r, n)   == Node("Plus", r, n)
LessThan(r, n) == Node("LessThan", r, n)
NameError    == Node("NameError", NoReg, 0)
\* vtypes.Cond(test, body, orelse) with the test r, the body n, the orelse 0
Cond(r, n)   == Node("Cond", r, n)

\* the name of the FSM of the thread (0) and of its k-th child thread, and
\* fsm.state, the state register of that FSM
FsmName(k) == IF k = 0 THEN "th"
              ELSE <<"th_child_1", "th_child_2", "th_child_3", "th_child_4",
                     "th_child_5", "th_child_6", "th_child_7", "th_child_8",
                     "th_child_9", "th_child_10">>[k]
StateReg(k) == ExtObj(FsmName(k))
Equals(r, n)    == Node("Eq", r, n)
NotEquals(r, n) == Node("NotEq", r, n)

\* objects that are no IR: the thread generator, the k-th ThreadInfo, and a
\* function of local_objects whose body is n assignments
GeneratorObj == Node("ThreadGenerator", NoReg, 0)
ThreadObj(k) == Node("ThreadInfo", NoReg, k)
FunctionObj(n) == Node("Function", NoReg, n)
IsObject(v)  == v.kind \in {"ThreadGenerator", "ThreadInfo", "Function"}

\* str(func) of a bound method: its class, its object and its name
Method(cls, obj, attr) == [cls |-> cls, obj |-> obj, attr |-> attr]

\* ThreadGenerator.__init__, lines 57-62: the registries, with the methods
\* run and sleep of the generator registered as intrinsics
NewMethods == {Method("ThreadGenerator", 0, a) : a \in {"run", "sleep"}}

\* ThreadInfo.intrinsics of the k-th ThreadInfo
ThreadMethods(k) == {Method("ThreadInfo", k, a) : a \in {"wait", "busy"}}
ThreadIntrinsics(k) ==
    <<Method("ThreadInfo", k, "wait"), Method("ThreadInfo", k, "busy")>>

\* a function object: its identity and its __name__; the names in a
\* registry of functions
Function(id, name) == Method("function", id, name)
Names(reg) == {f.attr : f \in reg}

\* inspect.isfunction, inspect.ismethod; an int is neither
isfunction(func) == func.cls = "function"
ismethod(func)   == func.cls \notin {"function", "int"}

\* add_function, lines 64-70, on the function library
add_function_replace(reg, func) ==
    IF func.attr \in Names(reg)
    THEN [reg |-> {f \in reg : f.attr # func.attr} \cup {func},
          raised |-> "ValueError"]
    ELSE [reg |-> reg \cup {func}, raised |-> "None"]

add_function_do(reg, func) ==
    IF func.attr \in Names(reg) THEN [reg |-> reg, raised |-> "ValueError"]
    ELSE [reg |-> reg \cup {func}, raised |-> "None"]

\* _add_intrinsic_function, lines 152-158
add_intrinsic_function(reg, func) ==
    IF func.attr \in Names(reg) THEN [reg |-> reg, raised |-> "ValueError"]
    ELSE [reg |-> reg \cup {func}, raised |-> "None"]

\* _add_intrinsic_method, lines 160-166: the key is str(func)
add_intrinsic_method(reg, func) ==
    IF func \in reg THEN [reg |-> reg, raised |-> "ValueError"]
    ELSE [reg |-> reg \cup {func}, raised |-> "None"]

\* intrinsic, lines 72-77, on the two registries of intrinsics
intrinsic_do(fs, ms, func) ==
    IF isfunction(func)
    THEN LET r == add_intrinsic_function(fs, func)
         IN [fs |-> r.reg, ms |-> ms, raised |-> r.raised]
    ELSE IF ismethod(func)
    THEN LET r == add_intrinsic_method(ms, func)
         IN [fs |-> fs, ms |-> r.reg, raised |-> r.raised]
    ELSE [fs |-> fs, ms |-> ms, raised |-> "TypeError"]

RECURSIVE add_intrinsics(_, _, _)
\* add_intrinsics, lines 79-81: the first error ends it
add_intrinsics(fs, ms, funcs) ==
    IF funcs = <<>> THEN [fs |-> fs, ms |-> ms, raised |-> "None"]
    ELSE LET r == intrinsic_do(fs, ms, Head(funcs)) IN
         IF r.raised # "None" THEN r
         ELSE add_intrinsics(r.fs, r.ms, Tail(funcs))

\* the number of the ThreadInfo that the next run makes
NextThread ==
    1 + Cardinality({i \in intrinsic_methods :
                        i.cls = "ThreadInfo" /\ i.attr = "wait"})

\* source expressions (ast): Num n, Name s, BinOp(Name s, Add, Num n)
Num(n)        == [e |-> "Num", s |-> "", n |-> n]
NameE(s)      == [e |-> "Name", s |-> s, n |-> 0]
BinOpAdd(s, n) == [e |-> "BinOp", s |-> s, n |-> n]
\* n if s else 0 (ast.IfExp)
IfExp(s, n)   == [e |-> "IfExp", s |-> s, n |-> n]
NoExpr        == [e |-> "", s |-> "", n |-> 0]
\* the name of a function of local_objects whose body is n assignments
Worker(n)     == [e |-> "Name", s |-> "worker", n |-> n]

\* names of local_objects: signals the thread function reads
LocalObjects == {"c", "d"}

\* a token of the program text: a statement head, "else", or "end" (the end
\* of the innermost open block or function body).  x: the assigned or
\* iteration name, e: an expression, r: the integer arguments of
\* range(...); for a call f(v = a): the parameter v, the argument a and k,
\* the place of the call ("expr": f(..), "assign": x = f(..), "return").
\* sig: the parameters of the called function, the defaults of its last
\* parameters, and the positional and keyword arguments of the call.
Sig(params, defaults, args, keywords) ==
    [params |-> params, defaults |-> defaults, args |-> args,
     keywords |-> keywords]
NoSig == Sig(<<>>, <<>>, <<>>, <<>>)
Keyword(arg, value) == [arg |-> arg, value |-> value]

\* an assignment target (ast.Name in store context, or ast.Tuple / ast.List
\* of targets) and the value assigned (an expression, or a tuple of values)
TName(s)     == [tuple |-> FALSE, s |-> s, elts |-> <<>>]
TTuple(elts) == [tuple |-> TRUE, s |-> "", elts |-> elts]
EOne(e)      == [tuple |-> FALSE, e |-> e, elts |-> <<>>]
ETuple(elts) == [tuple |-> TRUE, e |-> NoExpr, elts |-> elts]

\* f: the name called, o: the object whose method f is called ("": a call
\* by name; f = "": a function that is neither print, int nor an intrinsic)
Tok(t, x, e, r, v, k) ==
    [t |-> t, x |-> x, e |-> e, r |-> r, v |-> v, k |-> k,
     sig |-> IF t = "call" /\ v # "" THEN Sig(<<v>>, <<>>, <<e>>, <<>>)
             ELSE NoSig,
     f |-> "", o |-> "", targets |-> <<>>, value |-> EOne(NoExpr)]
Assign(x, e)  == Tok("assign", x, e, <<>>, "", "")
\* x += n
AugAssign(x, n) == Tok("augassign", x, Num(n), <<>>, "", "")
If(e)         == Tok("if", "", e, <<>>, "", "")
Else          == Tok("else", "", NoExpr, <<>>, "", "")
While(e)      == Tok("while", "", e, <<>>, "", "")
For(x, r)     == Tok("for", x, NoExpr, r, "", "")
Break         == Tok("break", "", NoExpr, <<>>, "", "")
Continue      == Tok("continue", "", NoExpr, <<>>, "", "")
Return        == Tok("return", "", NoExpr, <<>>, "", "")
ReturnV(e)    == Tok("return", "", e, <<>>, "", "value")
Call(v, a)          == Tok("call", "", a, <<>>, v, "expr")
AssignCall(x, v, a) == Tok("call", x, a, <<>>, v, "assign")
ReturnCall(v, a)    == Tok("call", "", a, <<>>, v, "return")
\* f(a) or x = f(a) by name, with  def f(a)  when a is given
NameCall(x, f, a)   == [Tok("call", x, a, <<>>, IF a = NoExpr THEN "" ELSE "a",
                            IF x = "" THEN "expr" ELSE "assign")
                           EXCEPT !.f = f]
\* o.f(a) or x = o.f(a)
MethodCall(x, o, f, a) == [NameCall(x, f, a) EXCEPT !.o = o]
\* x = f(args, keywords) for def f(params = defaults)
CallWith(x, sig)    == [Tok("call", x, NoExpr, <<>>, "", "assign")
                           EXCEPT !.sig = sig]
\* f() or x = f() for a function f that the source defines: the body is
\* not part of the statement, getFunction finds it
DefCall(x, f) ==
    [Tok("calldef", x, NoExpr, <<>>, "", IF x = "" THEN "expr" ELSE "assign")
        EXCEPT !.f = f]
\* while f(a): the test of a while statement is a call of f, with  def f(v);
\* the body of f, its end, the body of the loop and its end follow
WhileCall(v, a) == [Call(v, a) EXCEPT !.t = "whilecall", !.k = "while"]
\* import m, from m import n, class C: ... (v: the type of the node)
Unsupported(v) == Tok("import", "", NoExpr, <<>>, v, "")
\* for x in e: ... with e no call of range; its body is never visited
ForIn(x, e)   == Tok("forin", x, e, <<>>, "", "")
\* assert e: a statement without a visit_ method, and without a body
AssertStmt(e) == Tok("assert", "", e, <<>>, "", "")
\* try: ... (up to End): a statement without a visit_ method, with a body
Try           == Tok("try", "", NoExpr, <<>>, "", "")
\* targets[1] = targets[2] = ... = value
Assigns(targets, value) ==
    [Tok("assigns", "", NoExpr, <<>>, "", "")
        EXCEPT !.targets = targets, !.value = value]
End           == Tok("end", "", NoExpr, <<>>, "", "")

\* ------------------------------------------------------------------ FSM
\* The FSM primitive (veriloggen/fsm/fsm.py): a state counter, the recorded
\* transitions (src, dst, cond, else_dst) and the statements of each state.
NewFSM(first) == [current |-> first, trans |-> <<>>, stmts |-> <<>>]

goto_from(f, s, dst, cond, else_dst) ==
    [f EXCEPT !.trans = Append(@, [src |-> s, dst |-> dst, cond |-> cond,
                                   else_dst |-> else_dst])]

inc(f) == [f EXCEPT !.current = @ + 1]

\* goto_next(cond): a transition to the next state, which it allocates
goto_next(f, cond) ==
    inc(goto_from(f, f.current, f.current + 1, cond, NoState))

add_statement(f, var, value) ==
    [f EXCEPT !.stmts = Append(@, [state |-> f.current, var |-> var,
                                   value |-> value])]

\* ------------------------------------------------------- ScopeFrameList
\* A frame: its enclosing frame (0: none), its type ("call" marks a function
\* boundary), its variables, its unresolved break / continue / return states
\* and its return variable.
ScopeFrame(prev, ftype) ==
    [prev |-> prev, ftype |-> ftype, variables |-> {},
     brk |-> <<>>, cont |-> <<>>, ret |-> <<>>, retvar |-> NoReg]

NewScope == [frames |-> <<ScopeFrame(0, "")>>, current |-> 1]

pushScopeFrame(sc, ftype) ==
    [frames |-> Append(sc.frames, ScopeFrame(sc.current, ftype)),
     current |-> Len(sc.frames) + 1]

\* the closed frame stays in the list: visit_While, visit_For and the call
\* lowering read its unresolved states after they popped it
popScopeFrame(sc) == [sc EXCEPT !.current = sc.frames[sc.current].prev]

RECURSIVE IsUnder(_, _, _)
\* frame i is frame p or was pushed, directly or not, from frame p
IsUnder(frames, i, p) ==
    IF i = p THEN TRUE
    ELSE IF i = 0 THEN FALSE
    ELSE IsUnder(frames, frames[i].prev, p)

RECURSIVE CallFrameOf(_, _)
\* the innermost frame of type "call" at or around frame i (0: none)
CallFrameOf(frames, i) ==
    IF i = 0 THEN 0
    ELSE IF frames[i].ftype = "call" THEN i
    ELSE CallFrameOf(frames, frames[i].prev)

RECURSIVE FrameWith(_, _, _, _)
\* the innermost frame at or around frame i that binds name n (0: none); a
\* search for a store does not look past the function boundary, the frame
\* of type "call", as a store is to a local name unless nonlocal or global
\* names it
FrameWith(frames, i, n, store) ==
    IF i = 0 THEN 0
    ELSE IF \E b \in frames[i].variables : b.name = n THEN i
    ELSE IF store /\ frames[i].ftype = "call" THEN 0
    ELSE FrameWith(frames, frames[i].prev, n, store)

searchVariable(sc, n, store) ==
    LET i == FrameWith(sc.frames, sc.current, n, store) IN
    IF i = 0 THEN None
    ELSE (CHOOSE b \in sc.frames[i].variables : b.name = n).var

addVariable(sc, n, var) ==
    [sc EXCEPT !.frames[sc.current].variables =
        {b \in @ : b.name # n} \cup {[name |-> n, var |-> var]}]

\* break, continue and return states are kept in the current frame ...
addJump(sc, kind, count) ==
    [sc EXCEPT !.frames[sc.current][kind] = Append(@, count)]

\* ... and skip() looks at the current frame only
hasJump(sc, kind) == sc.frames[sc.current][kind] # <<>>

RECURSIVE UnresolvedFrom(_, _, _)
\* the unresolved states of the current frame and of every frame under it,
\* in the order the frames were pushed
UnresolvedFrom(sc, kind, i) ==
    IF i > Len(sc.frames) THEN <<>>
    ELSE (IF IsUnder(sc.frames, i, sc.current) THEN sc.frames[i][kind]
          ELSE <<>>) \o UnresolvedFrom(sc, kind, i + 1)

getUnresolved(sc, kind) == UnresolvedFrom(sc, kind, 1)

clearJump(sc, kind) ==
    [sc EXCEPT !.frames = [i \in DOMAIN @ |->
        IF IsUnder(sc.frames, i, sc.current)
        THEN [@[i] EXCEPT ![kind] = <<>>] ELSE @[i]]]

\* the return variable belongs to the innermost call frame
setReturnVariable(sc, r) ==
    LET c == CallFrameOf(sc.frames, sc.current) IN
    IF c = 0 THEN sc ELSE [sc EXCEPT !.frames[c].retvar = r]

getReturnVariable(sc) ==
    LET c == CallFrameOf(sc.frames, sc.current) IN
    IF c = 0 THEN NoReg ELSE sc.frames[c].retvar

clearReturnVariable(sc) ==
    LET c == CallFrameOf(sc.frames, sc.current) IN
    IF c = 0 THEN sc ELSE [sc EXCEPT !.frames[c].retvar = NoReg]

\* history of a lowering; base: the registers declared before this FSM
\* calls: the invocations of intrinsics
NewHist == [jumps |-> <<>>, patches |-> <<>>, blocks |-> <<>>, base |-> 0,
            calls |-> <<>>,
            reg |-> [n |-> 0, op |-> "", func |-> Method("", 0, ""),
                     raised |-> "None"],
            names |-> <<>>, created |-> 0, cnt0 |-> 0, passed |-> <<>>,
            first |-> <<>>, entry |-> [op |-> "create", fsm |-> NewFSM(0)]]

\* ------------------------------------------------ CompileVisitor helpers
\* The mutable objects a handler works on, threaded through its steps.
Machine == [fsm |-> fsm, scope |-> scope, cnt |-> tmp_count, regs |-> regs,
            hist |-> hist]

getFsmCount(m) == m.fsm.current

incFsmCount(m) == [m EXCEPT !.fsm = inc(@)]

\* setFsm(src=None, dst=None, cond=None, else_dst=None); NoState is None
setFsm(m, s, dst, cond, else_dst) ==
    LET s1 == IF s = NoState THEN m.fsm.current ELSE s
        d1 == IF dst = NoState THEN s1 + 1 ELSE dst
    IN [m EXCEPT !.fsm = goto_from(@, s1, d1, cond, else_dst)]

setBind(m, var, value) == [m EXCEPT !.fsm = add_statement(@, var, value)]

pushScope(m, ftype) == [m EXCEPT !.scope = pushScopeFrame(@, ftype)]

popScope(m) == [m EXCEPT !.scope = popScopeFrame(@)]

skip(sc) == hasJump(sc, "brk") \/ hasJump(sc, "cont") \/ hasJump(sc, "ret")

\* _tmp_name(prefix): the counter's value names the object, then increments
\* the prefix of a generated name: '_thread_<visitor>_<name>' of a register
\* ('<name>' itself 'tmp_<sub>' for a temporary), 'tmp', or
\* '<fsm>_child_<target>' of a child thread
Prefix(kind, base, sub) == [kind |-> kind, base |-> base, sub |-> sub]

\* a _tmp_name that gives the counter's value and leaves the counter as it
\* is
tmp_name_stale(m, prefix) ==
    [m EXCEPT !.hist.names = Append(@, [prefix |-> prefix, v |-> m.cnt])]

\* _tmp_name, lines 25-30: the name is prefix_v with v the counter's value,
\* and the counter goes up by one; history: the names made since reset()
tmp_name(m, prefix) ==
    [m EXCEPT !.cnt = @ + 1,
              !.hist.names = Append(@, [prefix |-> prefix, v |-> m.cnt])]

\* the name that the last _tmp_name made
LastName(m) == m.hist.names[Len(m.hist.names)]

\* m.Reg(signame, width): a register of the module
Reg(m, n, signame) ==
    [m |-> [m EXCEPT !.regs = Append(@, [base |-> n.base, sub |-> n.id,
                                         id |-> signame.v,
                                         width |-> datawidth])],
     var |-> Var([base |-> n.base, sub |-> n.id, id |-> signame.v,
                  width |-> datawidth])]

\* makeVariable, lines 909-913
makeVariable_named(m, n) == Reg(m, n, LastName(m))

makeVariable(m, n) ==
    makeVariable_named(tmp_name(m, Prefix("_thread", n.base, n.id)), n)

\* self.local_objects[name]: a signal, the thread generator, or nothing
local_objects(n) ==
    IF n.id # NoState THEN NameError
    ELSE IF n.base \in LocalObjects THEN Var(ExtObj(n.base))
    ELSE IF n.base = "thgen" THEN GeneratorObj
    ELSE NameError

\* a getVariable whose search for a store goes through every frame
getVariable_anyframe(m, n, store) ==
    LET var == searchVariable(m.scope, n, FALSE) IN
    IF var # None THEN [m |-> m, var |-> var]
    ELSE IF ~store
    THEN [m |-> m, var |-> local_objects(n)]
    ELSE LET mk == makeVariable(m, n)
             sc == addVariable(mk.m.scope, n, mk.var)
         IN [m |-> [mk.m EXCEPT !.scope = sc],
             var |-> searchVariable(sc, n, FALSE)]

\* getVariable, lines 915-928
getVariable(m, n, store) ==
    LET var == searchVariable(m.scope, n, store) IN
    IF var # None THEN [m |-> m, var |-> var]
    ELSE IF ~store
    THEN [m |-> m, var |-> local_objects(n)]
    ELSE LET mk == makeVariable(m, n)
             sc == addVariable(mk.m.scope, n, mk.var)
         IN [m |-> [mk.m EXCEPT !.scope = sc],
             var |-> searchVariable(sc, n, FALSE)]

getTmpVariable_named(m) ==
    getVariable(m, [base |-> "tmp", id |-> LastName(m).v], TRUE)

getTmpVariable(m) ==
    getTmpVariable_named(tmp_name(m, Prefix("tmp", "", NoState)))

\* visit(node) of an expression in load context
visit(m, e) ==
    IF e.e = "Num" THEN vInt(e.n)
    ELSE IF e.s = "worker" THEN FunctionObj(e.n)
    ELSE LET l == getVariable(m, Name(e.s), FALSE).var IN
         IF e.e = "Name" \/ l = NameError THEN l
         ELSE IF e.e = "IfExp" THEN Cond(l.reg, e.n)
         ELSE Plus(l.reg, e.n)

\* setArgBind, lines 963-970: an object is bound in the scope, a number
\* to a register
setArgBind(m, n, value) ==
    IF IsObject(value)
    THEN [m EXCEPT !.scope = addVariable(@, Name(n), value)]
    ELSE LET g == getVariable(m, Name(n), TRUE)
         IN setBind(g.m, g.var.reg, value)

\* history: a registered jump with the construct that owns it (the innermost
\* open loop of the function for break / continue, the innermost open call
\* for return) and, for a return with a value, the register it stores into;
\* a patch with the construct that made it; a closed construct with the
\* state counter at its entry (s), after its true body (m) and at its end
\* (e), the registers declared before and after it, its test, its iteration
\* register, and a call's result
Jumped(m, kind, owner, var) ==
    [m EXCEPT !.hist.jumps = Append(@, [kind |-> kind,
        state |-> m.fsm.current, owner |-> owner, var |-> var])]

Patched(m, kind, s, dst, by) ==
    [m EXCEPT !.hist.patches = Append(@, [kind |-> kind, state |-> s,
        dst |-> dst, by |-> by])]

Closed(m, act, e, result) ==
    [m EXCEPT !.hist.blocks = Append(@, [id |-> act.id, kind |-> act.kind,
        s |-> act.s0, m |-> act.m0, e |-> e, r0 |-> act.r0,
        r1 |-> Len(m.regs), test |-> act.test, iter |-> act.iter,
        result |-> result])]

addBreak(m, owner) ==
    Jumped([m EXCEPT !.scope = addJump(@, "brk", m.fsm.current)], "brk", owner,
           NoReg)

addContinue(m, owner) ==
    Jumped([m EXCEPT !.scope = addJump(@, "cont", m.fsm.current)], "cont",
           owner, NoReg)

addReturn(m, owner, var) ==
    Jumped([m EXCEPT !.scope = addJump(@, "ret", m.fsm.current)], "ret", owner,
           var)

RECURSIVE PatchAll(_, _, _, _, _)
\* for b in unresolved: self.setFsm(b, dst)
PatchAll(m, kind, unresolved, dst, by) ==
    IF unresolved = <<>> THEN m
    ELSE PatchAll(Patched(setFsm(m, Head(unresolved), dst, None, NoState),
                          kind, Head(unresolved), dst, by),
                  kind, Tail(unresolved), dst, by)

\* ------------------------------------------------- the visitor's position
\* an open visit_* activation: its local variables (a, b, c, d: the state
\* counts it keeps; test, iter, endv, step: its IR nodes; x, k: its target
\* and the place of a call) and, for the history, the state counter and the
\* number of registers at its entry (s0, r0) and after its true body (m0)
Activation(kind, id) ==
    [kind |-> kind, id |-> id, a |-> NoState, b |-> NoState, c |-> NoState,
     d |-> NoState, test |-> None, iter |-> None, endv |-> 0, step |-> 0,
     x |-> "", k |-> "", s0 |-> fsm.current, r0 |-> Len(regs),
     m0 |-> NoState, f |-> ""]

Top == ctl[Len(ctl)]
Pop(st) == SubSeq(st, 1, Len(st) - 1)

RECURSIVE OwnerFrom(_, _, _)
\* the id of the innermost activation of one of `kinds' at or below
\* position i, not looking below the innermost call (0: none)
OwnerFrom(st, i, kinds) ==
    IF i = 0 THEN 0
    ELSE IF st[i].kind \in kinds THEN st[i].id
    ELSE IF st[i].kind = "call" THEN 0
    ELSE OwnerFrom(st, i - 1, kinds)

LoopOwner == OwnerFrom(ctl, Len(ctl), {"while", "for"})
CallOwner == OwnerFrom(ctl, Len(ctl), {"call"})

RECURSIVE StmtLen(_, _, _)
\* the length of the statement that starts at seq[i], with its body
StmtLen(seq, i, depth) ==
    IF i > Len(seq) THEN i - 1
    ELSE LET d == IF seq[i].t \in {"if", "while", "for", "call"} THEN depth + 1
                  ELSE IF seq[i].t = "end" THEN depth - 1 ELSE depth
         IN IF d = 0 THEN i ELSE StmtLen(seq, i + 1, d)

\* the tokens Spec may visit next
FreeTokens ==
    {Assign("x", Num(1)),
     If(NameE("c")), If(NameE("a")), Else, While(NameE("c")),
     For("i", <<2>>), Break, Continue, End,
     Return, ReturnV(Num(1)), ReturnV(Num(2)), ReturnV(BinOpAdd("x", 1)),
     Call("", NoExpr), AssignCall("y", "a", NameE("c")),
     ReturnCall("x", Num(3))}

IsOpen(tok) == tok.t \in {"if", "while", "for", "call"}

\* the tokens the visitor may meet next
Tokens == IF free THEN FreeTokens
          ELSE IF todo = <<>> THEN {} ELSE {Head(todo)}

\* the handler for tok may run now
Visiting(tok) ==
    /\ phase = "lower"
    /\ IF ctl = <<>> THEN tok.t = "call" /\ tok.k = "expr" ELSE TRUE
    /\ IF free
       THEN /\ tok.t \in {"break", "continue"} => LoopOwner # 0
            /\ Len(src) + Len(ctl) + (IF tok.t = "end" THEN 0
                                      ELSE IF IsOpen(tok) THEN 2 ELSE 1)
                 <= MaxTokens
       ELSE TRUE

\* the visitor moves past tok (a skipped statement: past its body too)
Advance(tok, skipped) ==
    LET n == IF skipped /\ IsOpen(tok) THEN StmtLen(todo, 1, 0) ELSE 1 IN
    /\ src' = IF free
              THEN (IF skipped /\ IsOpen(tok) THEN src \o <<tok, End>>
                    ELSE Append(src, tok))
              ELSE src \o SubSeq(todo, 1, n)
    /\ todo' = IF free THEN todo ELSE SubSeq(todo, n + 1, Len(todo))
    /\ free' = free

\* ... in a handler that registers nothing and starts no thread
Consume(tok, skipped) == Advance(tok, skipped) /\ UNCHANGED <<lib, threads>>

Commit(m) ==
    /\ fsm' = m.fsm
    /\ scope' = m.scope
    /\ tmp_count' = m.cnt
    /\ regs' = m.regs
    /\ hist' = m.hist

\* an exception leaves the handler: the objects stay as they are
Raise(m) == Commit(m) /\ phase' = "error" /\ UNCHANGED <<ctl, hw>>

\* ------------------------------------------------------------ statements
\* a visit_Assign that binds and records its transition but allocates no state
Assign_noinc(m, tok, right) ==
    LET g == getVariable(m, Name(tok.x), TRUE) IN
    setFsm(setBind(g.m, g.var.reg, right), NoState, NoState, None, NoState)

\* visit_Assign, lines 282-291: right, then the target, then the binding
Assign_do(m, tok, right) ==
    LET g == getVariable(m, Name(tok.x), TRUE) IN
    incFsmCount(setFsm(setBind(g.m, g.var.reg, right),
                       NoState, NoState, None, NoState))

visit_Assign ==
    \E tok \in Tokens :
        /\ tok.t = "assign"
        /\ Visiting(tok)
        /\ IF skip(scope)
           THEN Consume(tok, TRUE) /\ UNCHANGED <<fsm, scope, tmp_count, regs,
                                                  hist, ctl, phase, hw>>
           ELSE LET right == visit(Machine, tok.e) IN
                /\ Consume(tok, FALSE)
                /\ IF right = NameError THEN Raise(Machine)
                   ELSE /\ Commit(Assign_do(Machine, tok, right))
                        /\ UNCHANGED <<ctl, phase, hw>>

\* visit_AugAssign, lines 322-330: right, then the target, which ast gives
\* the store context, then op(left, right) and the binding
AugAssign_do(m, tok, right) ==
    LET g == getVariable(m, Name(tok.x), TRUE)
        rslt == Plus(g.var.reg, right.k)
    IN incFsmCount(setFsm(setBind(g.m, g.var.reg, rslt),
                          NoState, NoState, None, NoState))

visit_AugAssign ==
    \E tok \in Tokens :
        /\ tok.t = "augassign"
        /\ Visiting(tok)
        /\ IF skip(scope)
           THEN Consume(tok, TRUE) /\ UNCHANGED <<fsm, scope, tmp_count, regs,
                                                  hist, ctl, phase, hw>>
           ELSE LET right == visit(Machine, tok.e) IN
                /\ Consume(tok, FALSE)
                /\ IF right = NameError THEN Raise(Machine)
                   ELSE /\ Commit(AugAssign_do(Machine, tok, right))
                        /\ UNCHANGED <<ctl, phase, hw>>

\* ----------------------------------------------------- tuple assignment
RECURSIVE visit_Tuple(_, _)
\* visit(node.value): visit_Tuple / visit_List, lines 897-902, give the
\* tuple of the values of the elements
visit_Tuple(m, v) ==
    IF v.tuple
    THEN [tuple |-> TRUE, val |-> None,
          elts |-> [i \in DOMAIN v.elts |-> visit_Tuple(m, v.elts[i])]]
    ELSE [tuple |-> FALSE, val |-> visit(m, v.e), elts |-> <<>>]

RECURSIVE HasNameError(_)
HasNameError(r) ==
    IF r.tuple THEN \E i \in DOMAIN r.elts : HasNameError(r.elts[i])
    ELSE r.val = NameError

RECURSIVE visit_Target(_, _)
RECURSIVE visit_Targets(_, _, _)
\* visit(target), line 283: a name in store context is looked up or
\* declared (visit_Name, lines 835-837), a tuple gives the tuple of its
\* elements; with it the name that TargetVisitor returns, lines 224-233
visit_Target(m, t) ==
    IF t.tuple
    THEN LET r == visit_Targets([m |-> m, lefts |-> <<>>], t.elts, 1)
         IN [m |-> r.m,
             left |-> [tuple |-> TRUE, s |-> "", var |-> None,
                       elts |-> r.lefts]]
    ELSE LET g == getVariable(m, Name(t.s), TRUE)
         IN [m |-> g.m,
             left |-> [tuple |-> FALSE, s |-> t.s, var |-> g.var,
                       elts |-> <<>>]]

visit_Targets(acc, ts, i) ==
    IF i > Len(ts) THEN acc
    ELSE LET r == visit_Target(acc.m, ts[i])
         IN visit_Targets([m |-> r.m, lefts |-> Append(acc.lefts, r.left)],
                          ts, i + 1)

\* a tuple as a value that is no IR: its length
TupleObj(n) == Node("tuple", NoReg, n)

\* a setAssignBind that gives each binding a state of its own
setAssignBind_state(m, dst, right) ==
    IF right.tuple
    THEN [m EXCEPT !.scope = addVariable(@, Name(dst.s),
                                         TupleObj(Len(right.elts)))]
    ELSE IF IsObject(right.val)
    THEN [m EXCEPT !.scope = addVariable(@, Name(dst.s), right.val)]
    ELSE incFsmCount(setBind(m, dst.var.reg, right.val))

\* setAssignBind, lines 972-981: a value that is not numerical is bound to
\* the name in the scope, a numerical one to the register in the FSM
setAssignBind(m, dst, right) ==
    IF right.tuple
    THEN [m EXCEPT !.scope = addVariable(@, Name(dst.s),
                                         TupleObj(Len(right.elts)))]
    ELSE IF IsObject(right.val)
    THEN [m EXCEPT !.scope = addVariable(@, Name(dst.s), right.val)]
    ELSE setBind(m, dst.var.reg, right.val)

RECURSIVE assign_any(_, _, _)
RECURSIVE assign_zip_any(_, _, _, _)
\* an _assign that compares no lengths: zip stops at the shorter side
assign_any(a, left, right) ==
    LET dsts == IF left.tuple THEN left.elts ELSE <<left>> IN
    IF ~right.tuple \/ Len(dsts) = 1
    THEN [a EXCEPT !.m = setAssignBind(@, dsts[1], right)]
    ELSE assign_zip_any(a, dsts, right.elts, 1)

assign_zip_any(a, dsts, rights, i) ==
    IF i > Len(dsts) \/ i > Len(rights) THEN a
    ELSE assign_zip_any(assign_any(a, dsts[i], rights[i]), dsts, rights,
                        i + 1)

RECURSIVE assign(_, _, _)
RECURSIVE assign_zip(_, _, _, _)
\* _assign, lines 293-317; a is the visitor and the exception raised so far.
\* Line 300 takes len(right) of a right that is no tuple to build its
\* message, which raises TypeError in place of the ValueError.
assign(a, left, right) ==
    LET dsts == IF left.tuple THEN left.elts ELSE <<left>> IN
    IF a.raised # "None" THEN a
    ELSE IF ~right.tuple
    THEN IF Len(dsts) > 1 THEN [a EXCEPT !.raised = "TypeError"]
         ELSE [a EXCEPT !.m = setAssignBind(@, dsts[1], right)]
    ELSE IF Len(dsts) = 1
    THEN [a EXCEPT !.m = setAssignBind(@, dsts[1], right)]
    ELSE IF Len(dsts) < Len(right.elts)
    THEN [a EXCEPT !.raised = "ValueError: too many values"]
    ELSE IF Len(dsts) > Len(right.elts)
    THEN [a EXCEPT !.raised = "ValueError: not enough values"]
    ELSE assign_zip(a, dsts, right.elts, 1)

\* for raw_l, l, r in zip(raw_dsts, dsts, right): self._assign(raw_l, l, r)
assign_zip(a, dsts, rights, i) ==
    IF i > Len(dsts) THEN a
    ELSE assign_zip(assign(a, dsts[i], rights[i]), dsts, rights, i + 1)

RECURSIVE assign_targets(_, _, _, _)
\* lines 287-288: for raw_left, left in zip(raw_lefts, lefts)
assign_targets(a, lefts, right, i) ==
    IF i > Len(lefts) THEN a
    ELSE assign_targets(assign(a, lefts[i], right), lefts, right, i + 1)

\* visit_Assign, lines 282-288: right, then the targets, then the bindings
Assign_targets(r, right) ==
    assign_targets([m |-> r.m, raised |-> "None"], r.lefts, right, 1)

\* lines 290-291, which an exception does not reach
Assigned(a) ==
    IF a.raised # "None" THEN Raise(a.m)
    ELSE /\ Commit(incFsmCount(setFsm(a.m, NoState, NoState, None, NoState)))
         /\ UNCHANGED <<ctl, phase, hw>>

\* visit_Assign for targets and values of any shape
visit_Assign_targets ==
    \E tok \in Tokens :
        /\ tok.t = "assigns"
        /\ Visiting(tok)
        /\ IF skip(scope)
           THEN Consume(tok, TRUE) /\ UNCHANGED <<fsm, scope, tmp_count, regs,
                                                  hist, ctl, phase, hw>>
           ELSE /\ Consume(tok, FALSE)
                /\ IF HasNameError(visit_Tuple(Machine, tok.value))
                   THEN Raise(Machine)
                   ELSE Assigned(Assign_targets(
                            visit_Targets([m |-> Machine, lefts |-> <<>>],
                                          tok.targets, 1),
                            visit_Tuple(Machine, tok.value)))

\* visit_Break / visit_Continue: no skip() test
\* a break that also records the default transition of its state
Break_do_next(m, owner) ==
    incFsmCount(setFsm(addBreak(m, owner), NoState, NoState, None, NoState))

Break_do(m, owner) == incFsmCount(addBreak(m, owner))

Continue_do(m, owner) == incFsmCount(addContinue(m, owner))

visit_Break ==
    \E tok \in Tokens :
        /\ tok.t = "break"
        /\ Visiting(tok)
        /\ Consume(tok, FALSE)
        /\ Commit(Break_do(Machine, LoopOwner))
        /\ UNCHANGED <<ctl, phase, hw>>

visit_Continue ==
    \E tok \in Tokens :
        /\ tok.t = "continue"
        /\ Visiting(tok)
        /\ Consume(tok, FALSE)
        /\ Commit(Continue_do(Machine, LoopOwner))
        /\ UNCHANGED <<ctl, phase, hw>>

\* a return that makes a new temporary every time
Return_var_fresh(m) ==
    LET t == getTmpVariable(m) IN
    [m |-> [t.m EXCEPT !.scope = setReturnVariable(@, t.var.reg)], var |-> t.var]

\* visit_Return, lines 737-748: the return variable of this call, made by
\* the first return with a value
Return_var(m) ==
    LET retvar == getReturnVariable(m.scope) IN
    IF retvar # NoReg THEN [m |-> m, var |-> Var(retvar)]
    ELSE LET t == getTmpVariable(m) IN
         [m |-> [t.m EXCEPT !.scope = setReturnVariable(@, t.var.reg)],
          var |-> t.var]

\* ... and lines 741-744 / 750-753
Return_bind(m, left, right, owner) ==
    incFsmCount(addReturn(setBind(m, left.reg, right), owner, left.reg))

visit_Return ==
    \E tok \in Tokens :
        /\ tok.t = "return"
        /\ Visiting(tok)
        /\ Consume(tok, FALSE)
        /\ IF tok.k = ""
           THEN /\ Commit(incFsmCount(addReturn(Machine, CallOwner, NoReg)))
                /\ UNCHANGED <<ctl, phase, hw>>
           ELSE LET rv == Return_var(Machine)
                    right == visit(rv.m, tok.e)
                IN IF right = NameError THEN Raise(rv.m)
                   ELSE /\ Commit(Return_bind(rv.m, rv.var, right, CallOwner))
                        /\ UNCHANGED <<ctl, phase, hw>>

\* ---------------------------------------------------------------- calls
\* _call_Name_function, lines 578-614: the argument, the call frame, the
\* binding of the parameter, and the state boundary
RECURSIVE BindArgs(_, _, _, _)
\* for pos, arg in enumerate(node.args): setArgBind(argname, args[pos])
BindArgs(m, params, args, pos) ==
    IF pos > Len(args) THEN m
    ELSE BindArgs(setArgBind(m, params[pos], args[pos]), params, args,
                  pos + 1)

RECURSIVE BindKeywords(_, _, _, _)
\* for pos, key in enumerate(node.keywords): setArgBind(key.arg, ..)
BindKeywords(m, keywords, values, pos) ==
    IF pos > Len(values) THEN m
    ELSE BindKeywords(setArgBind(m, keywords[pos].arg, values[pos]),
                      keywords, values, pos + 1)

\* the parameter that has the pos-th default
DefaultName(sig, pos) == sig.params[Len(sig.params) - Len(sig.defaults) + pos]

RECURSIVE BindDefaults_anyframe(_, _, _)
\* a binding of the defaults that takes a parameter for bound when any
\* frame, the caller's too, has a variable of its name
BindDefaults_anyframe(m, sig, pos) ==
    IF pos > Len(sig.defaults) THEN m
    ELSE LET argname == DefaultName(sig, pos)
             var == searchVariable(m.scope, Name(argname), FALSE)
         IN BindDefaults_anyframe(
                IF var = None
                THEN setArgBind(m, argname, visit(m, sig.defaults[pos]))
                ELSE m, sig, pos + 1)

RECURSIVE BindDefaults(_, _, _)
\* lines 600-611: a default is bound when the parameter is not defined yet
BindDefaults(m, sig, pos) ==
    IF pos > Len(sig.defaults) THEN m
    ELSE LET argname == DefaultName(sig, pos)
             var == searchVariable(m.scope, Name(argname), TRUE)
         IN BindDefaults(
                IF var = None
                THEN setArgBind(m, argname, visit(m, sig.defaults[pos]))
                ELSE m, sig, pos + 1)

\* an inlining that binds the defaults by a search through every frame
Call_open_anyframe(m, tok, args, keywords) ==
    LET m1 == pushScope(m, "call")
        m2 == BindArgs(m1, tok.sig.params, args, 1)
        m3 == BindKeywords(m2, tok.sig.keywords, keywords, 1)
        m4 == BindDefaults_anyframe(m3, tok.sig, 1)
    IN incFsmCount(setFsm(m4, NoState, NoState, None, NoState))

\* _call_Name_function, lines 586-614
Call_open(m, tok, args, keywords) ==
    incFsmCount(setFsm(
        BindDefaults(
            BindKeywords(
                BindArgs(pushScope(m, "call"), tok.sig.params, args, 1),
                tok.sig.keywords, keywords, 1),
            tok.sig, 1),
        NoState, NoState, None, NoState))

\* _visit_next_function, lines 638-641
CallResult(sc) ==
    IF getReturnVariable(sc) # NoReg THEN Var(getReturnVariable(sc))
    ELSE vInt(0)

\* a call clean-up that patches the returns but leaves them registered
Call_close_keep(m, by) ==
    LET end_count == getFsmCount(m)
        m1 == PatchAll(m, "ret", getUnresolved(m.scope, "ret"), end_count, by)
        sc == clearReturnVariable(clearJump(clearJump(m1.scope, "brk"), "cont"))
    IN popScope([m1 EXCEPT !.scope = sc])

\* a call clean-up that sends the pending breaks and continues to the state
\* after the call, as it does the returns
Call_close_jumps(m, by) ==
    LET end_count == getFsmCount(m)
        m1 == PatchAll(
                  PatchAll(
                      PatchAll(m, "brk", getUnresolved(m.scope, "brk"),
                               end_count, by),
                      "cont", getUnresolved(m.scope, "cont"), end_count, by),
                  "ret", getUnresolved(m.scope, "ret"), end_count, by)
        sc == clearReturnVariable(clearJump(clearJump(clearJump(
                  m1.scope, "brk"), "cont"), "ret"))
    IN popScope([m1 EXCEPT !.scope = sc])

\* _call_Name_function, lines 619-632
Call_close(m, by) ==
    LET end_count == getFsmCount(m)
        m1 == PatchAll(m, "ret", getUnresolved(m.scope, "ret"), end_count, by)
        sc == clearReturnVariable(clearJump(clearJump(clearJump(
                  m1.scope, "brk"), "cont"), "ret"))
    IN popScope([m1 EXCEPT !.scope = sc])

\* _call_Name, lines 493-507: print, int, an intrinsic function, or else a
\* function that is inlined
call_Name(tok) ==
    IF tok.f = "print" THEN "print"
    ELSE IF tok.f = "int" THEN "int"
    ELSE IF tok.f \in Names(intrinsic_functions) THEN "intrinsic"
    ELSE "function"

\* _call_Attribute, lines 657-675: the method obj of the value of tok.o is
\* invoked when str(obj) is registered, and else inlined
MethodOf(m, tok) ==
    LET value == visit(m, NameE(tok.o)) IN Method(value.kind, value.k, tok.f)

call_Attribute(tok) ==
    IF MethodOf(Machine, tok) \in intrinsic_methods THEN "method"
    ELSE "function"

\* visit_Call, lines 481-491
Dispatch(tok) == IF tok.o = "" THEN call_Name(tok) ELSE call_Attribute(tok)

\* visit_Call: f(..), x = f(..) or return f(..), up to the function body
visit_Call ==
    \E tok \in Tokens :
        /\ tok.t = "call"
        /\ Dispatch(tok) = "function"
        /\ Visiting(tok)
        /\ LET m0 == IF tok.k = "return" THEN Return_var(Machine)
                     ELSE [m |-> Machine, var |-> None]
               args == [i \in 1..Len(tok.sig.args) |->
                           visit(m0.m, tok.sig.args[i])]
               keywords == [i \in 1..Len(tok.sig.keywords) |->
                               visit(m0.m, tok.sig.keywords[i].value)]
               \* a name that is not defined, or tree.args.args[pos] past
               \* the last parameter
               raises == \/ \E i \in 1..Len(args) : args[i] = NameError
                         \/ \E i \in 1..Len(keywords) :
                                keywords[i] = NameError
                         \/ Len(args) > Len(tok.sig.params)
           IN IF skip(scope)
              THEN /\ Consume(tok, TRUE)
                   /\ UNCHANGED <<ctl, phase, hw>>
                   \* visit_Return does not test skip(): the value is None
                   /\ IF tok.k = "return"
                      THEN Commit(Return_bind(m0.m, m0.var, None, CallOwner))
                      ELSE Commit(Machine)
              ELSE /\ Consume(tok, FALSE)
                   /\ IF raises THEN Raise(m0.m)
                      ELSE /\ Commit(Call_open(m0.m, tok, args, keywords))
                           /\ ctl' = Append(ctl,
                                [Activation("call", Len(src) + 1) EXCEPT
                                    !.k = tok.k, !.x = tok.x, !.iter = m0.var,
                                    !.r0 = Len(m0.m.regs)])
                           /\ UNCHANGED <<phase, hw>>

\* the functions of the source, which FunctionVisitor collects by name
\* (lines 212-222):  def once(): x = 1 ;  def twice(): once() ; y = once() ;
\* def rec(): x = 1 ; rec() ;  def down(): y = rec()
FunctionDefs ==
    [once  |-> <<Assign("x", Num(1))>>,
     twice |-> <<DefCall("", "once"), DefCall("y", "once")>>,
     rec   |-> <<Assign("x", Num(1)), DefCall("", "rec")>>,
     down  |-> <<DefCall("y", "rec")>>]

\* getFunction, lines 948-961: the tree of the function of that name
getFunction(name) == FunctionDefs[name]

\* _call_Name_function, lines 573-617, for a function of the source: the
\* visitor goes on with the body that getFunction returned.  Each inlining
\* nests visit() calls of the interpreter, which raises RecursionError when
\* its stack is full.
visit_Call_def ==
    \E tok \in Tokens :
        /\ tok.t = "calldef"
        /\ Visiting(tok)
        /\ ~free
        /\ IF skip(scope)
           THEN Consume(tok, TRUE) /\ UNCHANGED <<fsm, scope, tmp_count, regs,
                                                  hist, ctl, phase, hw>>
           ELSE /\ src' = Append(src, tok)
                /\ UNCHANGED <<free, lib, threads>>
                /\ IF Len(ctl) > MaxDepth
                   THEN todo' = Tail(todo) /\ Raise(Machine)
                   ELSE /\ todo' = getFunction(tok.f) \o <<End>> \o Tail(todo)
                        /\ Commit(Call_open(Machine, tok, <<>>, <<>>))
                        /\ ctl' = Append(ctl,
                             [Activation("call", Len(src) + 1) EXCEPT
                                 !.k = tok.k, !.x = tok.x, !.f = tok.f])
                        /\ UNCHANGED <<phase, hw>>

\* the end of the function body: the call returns to the handler it is in
Call_return(m, act, ret, owner) ==
    IF act.k = "assign" THEN Assign_do(m, act, ret)
    ELSE IF act.k = "return" THEN Return_bind(m, act.iter, ret, owner)
    ELSE m

visit_Call_end ==
    \E tok \in Tokens :
        /\ tok.t = "end"
        /\ Visiting(tok)
        /\ Top.kind = "call"
        /\ Top.k # "while"
        /\ Consume(tok, FALSE)
        /\ LET ret == CallResult(scope)
               m1 == Call_close(Machine, Top.id)
           IN Commit(Call_return(Closed(m1, Top, m1.fsm.current, ret), Top,
                                 ret, OwnerFrom(ctl, Len(ctl) - 1, {"call"})))
        /\ ctl' = Pop(ctl)
        /\ phase' = IF Len(ctl) = 1 THEN "done" ELSE phase
        /\ hw' = hw

\* ----------------------------------------------------------- intrinsics
\* the arguments of a call, lowered
Lowered_args(m, tok) ==
    [i \in 1..Len(tok.sig.args) |-> visit(m, tok.sig.args[i])]

\* visit_Assign after its value, a call, is lowered: lines 283-291 with
\* setAssignBind, lines 972-981: an object is bound in the scope
Assign_object(m, tok, value) ==
    LET g == getVariable(m, Name(tok.x), TRUE)
        sc == addVariable(g.m.scope, Name(tok.x), value)
    IN incFsmCount(setFsm([g.m EXCEPT !.scope = sc],
                          NoState, NoState, None, NoState))

CallDone(m, tok, ret) ==
    IF tok.k # "assign" THEN m
    ELSE IF IsObject(ret) \/ ret = None THEN Assign_object(m, tok, ret)
    ELSE Assign_do(m, tok, ret)

\* history: intrinsic func was invoked for the token at position `at' with
\* FSM f and the arguments args, and left the FSM as `after'
Invoked(m, func, at, f, args, after) ==
    [m EXCEPT !.hist.calls = Append(@, [func |-> func, at |-> at, fsm |-> f,
                                        args |-> args, after |-> after,
                                        frames |-> Len(m.scope.frames)])]

\* an intrinsic function, named like a method
FuncId(name) == Function(0, name)

\* _call_Name_print, lines 509-549: a $display statement and one state
Call_print(m, args) ==
    incFsmCount(setFsm(setBind(m, NoReg, Node("display", NoReg, Len(args))),
                       NoState, NoState, None, NoState))

visit_Call_print ==
    \E tok \in Tokens :
        /\ tok.t = "call"
        /\ Dispatch(tok) = "print"
        /\ Visiting(tok)
        /\ Consume(tok, TRUE)
        /\ UNCHANGED <<ctl, hw>>
        /\ LET args == Lowered_args(Machine, tok) IN
           IF skip(scope) THEN Commit(Machine) /\ phase' = phase
           ELSE IF \E i \in DOMAIN args : args[i] = NameError
           THEN Commit(Machine) /\ phase' = "error"
           ELSE /\ Commit(CallDone(Call_print(Machine, args), tok,
                                   Node("display", NoReg, Len(args))))
                /\ phase' = phase

\* _call_Name_int, lines 561-571: int(a) is a; no state
visit_Call_int ==
    \E tok \in Tokens :
        /\ tok.t = "call"
        /\ Dispatch(tok) = "int"
        /\ Visiting(tok)
        /\ Consume(tok, TRUE)
        /\ UNCHANGED <<ctl, hw>>
        /\ LET args == Lowered_args(Machine, tok) IN
           IF skip(scope) THEN Commit(Machine) /\ phase' = phase
           ELSE IF \/ \E i \in DOMAIN args : args[i] = NameError
                   \/ Len(args) # 1
           THEN Commit(Machine) /\ phase' = "error"
           ELSE Commit(CallDone(Machine, tok, args[1])) /\ phase' = phase

\* intrinsic functions that a user registers:
\*     def stall(fsm): fsm.goto_next() ; return 0
\*     def <other>(fsm, *args): return 0
Intrinsic(name, f, args) ==
    IF name = "stall" THEN [fsm |-> goto_next(f, None), ret |-> vInt(0)]
    ELSE [fsm |-> f, ret |-> vInt(0)]

\* an invocation after which the compiler allocates a state of its own
Call_intrinsic_state(m, tok, args) ==
    LET r == Intrinsic(tok.f, m.fsm, args)
    IN [m |-> incFsmCount(Invoked([m EXCEPT !.fsm = r.fsm], FuncId(tok.f),
                                  Len(src) + 1, m.fsm, args, r.fsm)),
        ret |-> r.ret]

\* _call_Name_intrinsic_function, lines 643-655: func(fsm, *args, **kwargs)
Call_intrinsic(m, tok, args) ==
    LET r == Intrinsic(tok.f, m.fsm, args)
    IN [m |-> Invoked([m EXCEPT !.fsm = r.fsm], FuncId(tok.f), Len(src) + 1,
                      m.fsm, args, r.fsm),
        ret |-> r.ret]

visit_Call_intrinsic ==
    \E tok \in Tokens :
        /\ tok.t = "call"
        /\ Dispatch(tok) = "intrinsic"
        /\ Visiting(tok)
        /\ Consume(tok, TRUE)
        /\ UNCHANGED <<ctl, hw>>
        /\ LET args == Lowered_args(Machine, tok) IN
           IF skip(scope) THEN Commit(Machine) /\ phase' = phase
           ELSE IF \E i \in DOMAIN args : args[i] = NameError
           THEN Commit(Machine) /\ phase' = "error"
           ELSE LET r == Call_intrinsic(Machine, tok, args)
                IN Commit(CallDone(r.m, tok, r.ret)) /\ phase' = phase

RECURSIVE bit_length(_)
\* int.bit_length()
bit_length(n) == IF n = 0 THEN 0 ELSE 1 + bit_length(n \div 2)

\* m.TmpReg(width, initval=0)
TmpReg(m, width) ==
    LET r == [base |-> "_tmp", sub |-> NoState, id |-> Len(m.regs),
              width |-> width]
    IN [m |-> [m EXCEPT !.regs = Append(@, r)], var |-> r]

\* a sleep whose counter is two bits narrower
sleep_narrow(m, cycles) ==
    LET width == bit_length(cycles) - 1
        count == TmpReg(m, width)
        f1 == add_statement(count.m.fsm, count.var, Plus(count.var, 1))
    IN [count.m EXCEPT !.fsm = goto_next(f1, Equals(count.var, cycles))]

\* ThreadGenerator.sleep, lines 144-150
sleep(m, cycles) ==
    LET width == bit_length(cycles) + 1
        count == TmpReg(m, width)
        f1 == add_statement(count.m.fsm, count.var, Plus(count.var, 1))
    IN [count.m EXCEPT !.fsm = goto_next(f1, Equals(count.var, cycles))]

RECURSIVE LowerBody(_, _, _)
\* the body of a function of n assignments,  w = 1 ; w = 2 ; ...
LowerBody(m, i, n) ==
    IF i > n THEN m
    ELSE LowerBody(Assign_do(m, Assign("w", Num(i)), vInt(i)), i + 1, n)

\* _synthesize_fsm, lines 168-209: a new CompileVisitor on the FSM visits
\* the call targ() of a function without parameters
synthesize_fsm(m, n) ==
    Call_close(
        LowerBody(Call_open([m EXCEPT !.scope = NewScope,
                                      !.hist = [NewHist EXCEPT
                                                  !.names = m.hist.names]],
                            Call("", NoExpr), <<>>, <<>>),
                  1, n),
        1)

\* ThreadInfo.__init__, lines 36-38
ThreadInfo(thread_fsm) ==
    [thread_fsm |-> thread_fsm, end_state |-> thread_fsm.current]

\* run, lines 139-142: the module keeps the registers that the lowering of
\* the child declared, and the ThreadInfo holds the FSM of the child
Started(m, c) ==
    [m |-> [m EXCEPT !.cnt = c.cnt, !.regs = c.regs,
                     !.hist.names = c.hist.names],
     th |-> ThreadInfo(c.fsm)]

\* a run whose child FSM leaves its initial state without a condition
ThreadGenerator_run_nocond(m, targ) ==
    Started(m, synthesize_fsm(
                   [tmp_name(m, Prefix("child", "worker", 0))
                       EXCEPT !.fsm = goto_next(NewFSM(0), None)],
                   targ.k))

\* ThreadGenerator.run, lines 124-142, up to the ThreadInfo: the child FSM,
\* started when the state register of fsm holds fsm.current
ThreadGenerator_run(m, targ) ==
    Started(m, synthesize_fsm(
                   [tmp_name(m, Prefix("child", "worker", 0))
                       EXCEPT !.fsm = goto_next(NewFSM(0),
                                  Equals(StateReg(0), m.fsm.current))],
                   targ.k))

\* a wait that moves on without a condition
wait_nocond(m, k) == [m EXCEPT !.fsm = goto_next(@, None)]

\* ThreadInfo.wait, lines 40-42
wait(m, k) ==
    [m EXCEPT !.fsm = goto_next(@, Equals(StateReg(k), threads[k].end_state))]

\* a busy that compares with the state before end_state
busy_early(k) == NotEquals(StateReg(k), threads[k].end_state - 1)

\* ThreadInfo.busy, lines 44-45
busy(k) == NotEquals(StateReg(k), threads[k].end_state)

\* obj(fsm, *args): the intrinsic methods run and sleep of the generator
\* and wait and busy of a ThreadInfo; th: the ThreadInfo that run makes
Returned(r) ==
    [m |-> r.m, ret |-> ThreadObj(Len(threads) + 1), th |-> <<r.th>>]

Call_method(m, func, args) ==
    IF func.attr = "run" THEN Returned(ThreadGenerator_run(m, args[1]))
    ELSE IF func.attr = "sleep"
    THEN [m |-> sleep(m, args[1].k), ret |-> None, th |-> <<>>]
    ELSE IF func.attr = "wait"
    THEN [m |-> wait(m, func.obj), ret |-> vInt(0), th |-> <<>>]
    ELSE [m |-> m, ret |-> busy(func.obj), th |-> <<>>]

\* the arguments fit the method
Callable(func, args) ==
    IF func.attr = "run" THEN Len(args) = 1 /\ args[1].kind = "Function"
    ELSE IF func.attr = "sleep" THEN Len(args) = 1 /\ args[1].kind = "Int"
    ELSE args = <<>>

\* _call_Attribute, lines 657-675, for a registered method; run registers
\* the methods of its ThreadInfo, lines 139-140
Method_done(tok, func, args, r) ==
    LET new == IF r.th = <<>> THEN <<>>
               ELSE ThreadIntrinsics(Len(threads) + 1)
        reg == add_intrinsics(intrinsic_functions, intrinsic_methods, new)
    IN /\ intrinsic_methods' = reg.ms
       /\ IF reg.raised # "None"
          THEN /\ Commit(r.m) /\ phase' = "error"
               /\ threads' = threads
          ELSE /\ Commit(CallDone(Invoked(r.m, func, Len(src) + 1, fsm, args,
                                          r.m.fsm),
                                  tok, r.ret))
               /\ phase' = phase
               /\ threads' = threads \o r.th

Method_call(tok, func, args) ==
    IF skip(scope)
    THEN /\ Commit(Machine) /\ phase' = phase
         /\ UNCHANGED <<intrinsic_methods, threads>>
    ELSE IF \/ \E i \in DOMAIN args : args[i] = NameError
            \/ ~Callable(func, args)
    THEN /\ Commit(Machine) /\ phase' = "error"
         /\ UNCHANGED <<intrinsic_methods, threads>>
    ELSE Method_done(tok, func, args, Call_method(Machine, func, args))

visit_Call_method ==
    \E tok \in Tokens :
        /\ tok.t = "call"
        /\ Dispatch(tok) = "method"
        /\ Visiting(tok)
        /\ Advance(tok, TRUE)
        /\ UNCHANGED <<ctl, hw, function_lib, intrinsic_functions>>
        /\ Method_call(tok, MethodOf(Machine, tok), Lowered_args(Machine, tok))

\* ------------------------------------------------------------------- if
\* visit_If, lines 344-348
If_open(m) == pushScope(incFsmCount(m), "")

\* visit_If, lines 353-364: the true body is done and there is an else
If_orelse(m) == pushScope(incFsmCount(popScope(m)), "")

\* visit_If, lines 353-359: no else
If_close(m, act) ==
    LET m1 == popScope(m)
        mid_count == getFsmCount(m1)
    IN setFsm(m1, act.a, act.b, act.test, mid_count)

\* an if / else whose true body falls into the else body
If_close_fall(m, act) ==
    LET m1 == popScope(m)
    IN setFsm(m1, act.a, act.b, act.test, act.d)

\* visit_If, lines 369-373: after the else body
If_close_orelse(m, act) ==
    LET m1 == popScope(m)
        end_count == getFsmCount(m1)
    IN setFsm(setFsm(m1, act.a, act.b, act.test, act.d),
              act.c, end_count, None, NoState)

visit_If ==
    \E tok \in Tokens :
        /\ tok.t = "if"
        /\ Visiting(tok)
        /\ IF skip(scope)
           THEN Consume(tok, TRUE) /\ UNCHANGED <<fsm, scope, tmp_count, regs,
                                                  hist, ctl, phase, hw>>
           ELSE LET test == visit(Machine, tok.e) IN
                /\ Consume(tok, FALSE)
                /\ IF test = NameError THEN Raise(Machine)
                   ELSE /\ Commit(If_open(Machine))
                        /\ ctl' = Append(ctl,
                             [Activation("if", Len(src) + 1) EXCEPT
                                 !.a = fsm.current, !.b = fsm.current + 1,
                                 !.test = test])
                        /\ UNCHANGED <<phase, hw>>

visit_If_orelse ==
    \E tok \in Tokens :
        /\ tok.t = "else"
        /\ Visiting(tok)
        /\ Top.kind = "if"
        /\ Consume(tok, FALSE)
        /\ Commit(If_orelse(Machine))
        /\ ctl' = [ctl EXCEPT ![Len(ctl)] =
                     [@ EXCEPT !.kind = "else", !.c = fsm.current,
                               !.d = fsm.current + 1, !.m0 = fsm.current]]
        /\ UNCHANGED <<phase, hw>>

visit_If_end ==
    \E tok \in Tokens :
        /\ tok.t = "end"
        /\ Visiting(tok)
        /\ Top.kind \in {"if", "else"}
        /\ Consume(tok, FALSE)
        /\ LET m1 == IF Top.kind = "if" THEN If_close(Machine, Top)
                     ELSE If_close_orelse(Machine, Top)
           IN Commit(Closed(m1, Top, m1.fsm.current, None))
        /\ ctl' = Pop(ctl)
        /\ UNCHANGED <<phase, hw>>

\* ---------------------------------------------------------------- while
\* visit_While, lines 382-386
While_open(m) == pushScope(incFsmCount(m), "")

\* a while that sends its breaks back to the test
While_close_loop(m, act) ==
    LET m1 == popScope(m)
        body_end_count == getFsmCount(m1)
        m2 == incFsmCount(m1)
        loop_exit_count == getFsmCount(m2)
        m3 == setFsm(setFsm(m2, act.a, act.b, act.test, loop_exit_count),
                     body_end_count, act.a, None, NoState)
        m4 == PatchAll(m3, "brk", getUnresolved(m3.scope, "brk"),
                       act.a, act.id)
        m5 == PatchAll(m4, "cont", getUnresolved(m4.scope, "cont"),
                       act.a, act.id)
    IN [m5 EXCEPT !.scope = clearJump(clearJump(@, "brk"), "cont")]

\* visit_While, lines 391-409
While_close(m, act) ==
    LET m1 == popScope(m)
        body_end_count == getFsmCount(m1)
        m2 == incFsmCount(m1)
        loop_exit_count == getFsmCount(m2)
        m3 == setFsm(setFsm(m2, act.a, act.b, act.test, loop_exit_count),
                     body_end_count, act.a, None, NoState)
        m4 == PatchAll(m3, "brk", getUnresolved(m3.scope, "brk"),
                       loop_exit_count, act.id)
        m5 == PatchAll(m4, "cont", getUnresolved(m4.scope, "cont"),
                       act.a, act.id)
    IN [m5 EXCEPT !.scope = clearJump(clearJump(@, "brk"), "cont")]

visit_While ==
    \E tok \in Tokens :
        /\ tok.t = "while"
        /\ Visiting(tok)
        /\ IF skip(scope)
           THEN Consume(tok, TRUE) /\ UNCHANGED <<fsm, scope, tmp_count, regs,
                                                  hist, ctl, phase, hw>>
           ELSE LET test == visit(Machine, tok.e) IN
                /\ Consume(tok, FALSE)
                /\ IF test = NameError THEN Raise(Machine)
                   ELSE /\ Commit(While_open(Machine))
                        /\ ctl' = Append(ctl,
                             [Activation("while", Len(src) + 1) EXCEPT
                                 !.a = fsm.current, !.b = fsm.current + 1,
                                 !.test = test])
                        /\ UNCHANGED <<phase, hw>>

visit_While_end ==
    \E tok \in Tokens :
        /\ tok.t = "end"
        /\ Visiting(tok)
        /\ Top.kind = "while"
        /\ Consume(tok, FALSE)
        /\ LET m1 == While_close(Machine, Top)
           IN Commit(Closed(m1, Top, m1.fsm.current, None))
        /\ ctl' = Pop(ctl)
        /\ UNCHANGED <<phase, hw>>

\* visit_While, lines 376-380, when node.test is a call of a function that
\* is inlined: visit(node.test) runs visit_Call and _call_Name_function up
\* to the body of the function (lines 586-617); a skipped statement ends
\* with the body of the loop
visit_While_call ==
    \E tok \in Tokens :
        /\ tok.t = "whilecall"
        /\ Visiting(tok)
        /\ ~free
        /\ free' = free
        /\ UNCHANGED <<lib, threads>>
        /\ IF skip(scope)
           THEN /\ src' = src \o SubSeq(todo, 1, StmtLen(todo, 2, 2))
                /\ todo' = SubSeq(todo, StmtLen(todo, 2, 2) + 1, Len(todo))
                /\ UNCHANGED <<fsm, scope, tmp_count, regs, hist, ctl, phase,
                               hw>>
           ELSE LET args == [i \in 1..Len(tok.sig.args) |->
                                visit(Machine, tok.sig.args[i])]
                IN /\ src' = Append(src, tok)
                   /\ todo' = Tail(todo)
                   /\ IF \E i \in 1..Len(args) : args[i] = NameError
                      THEN Raise(Machine)
                      ELSE /\ Commit(Call_open(Machine, tok, args, <<>>))
                           /\ ctl' = Append(ctl,
                                [Activation("call", Len(src) + 1) EXCEPT
                                    !.k = tok.k])
                           /\ UNCHANGED <<phase, hw>>

\* the end of the function that is the test: the clean-up of the call
\* (lines 619-634) gives the test, and visit_While goes on with
\* begin_count, lines 382-386
visit_While_test ==
    \E tok \in Tokens :
        /\ tok.t = "end"
        /\ Visiting(tok)
        /\ Top.kind = "call"
        /\ Top.k = "while"
        /\ Consume(tok, FALSE)
        /\ Commit(While_open(Closed(Call_close(Machine, Top.id), Top,
                                    fsm.current, CallResult(scope))))
        /\ ctl' = Append(Pop(ctl),
                     [Activation("while", Top.id) EXCEPT
                         !.a = fsm.current, !.b = fsm.current + 1,
                         !.test = CallResult(scope), !.s0 = Top.s0,
                         !.r0 = Top.r0])
        /\ UNCHANGED <<phase, hw>>

\* ------------------------------------------------------------------ for
\* visit_For, lines 423-433: begin, end and step of range(...)
RangeBegin(r) == IF Len(r) = 1 THEN 0 ELSE r[1]
RangeEnd(r)   == IF Len(r) = 1 THEN r[1] ELSE r[2]
RangeStep(r)  == IF Len(r) < 3 THEN 1 ELSE r[3]

\* visit_For, line 436
ForCond(iter, endv) == LessThan(iter.reg, endv)

\* a for loop that checks in its first body state
For_open_nocheck(m, tok) ==
    LET g == getVariable(m, Name(tok.x), TRUE)
        m1 == pushScope(g.m, "")
        m2 == setBind(m1, g.var.reg, vInt(RangeBegin(tok.r)))
        m3 == incFsmCount(setFsm(m2, NoState, NoState, None, NoState))
    IN [m |-> m3, var |-> g.var, check_count |-> getFsmCount(m3)]

\* visit_For, lines 435-449
For_open(m, tok) ==
    LET g == getVariable(m, Name(tok.x), TRUE)
        m1 == pushScope(g.m, "")
        m2 == setBind(m1, g.var.reg, vInt(RangeBegin(tok.r)))
        m3 == incFsmCount(setFsm(m2, NoState, NoState, None, NoState))
    IN [m |-> incFsmCount(m3), var |-> g.var, check_count |-> getFsmCount(m3)]

\* visit_For, lines 454-476
For_close(m, act) ==
    LET m1 == popScope(m)
        body_end_count == getFsmCount(m1)
        m2 == incFsmCount(setBind(m1, act.iter.reg,
                                  Plus(act.iter.reg, act.step)))
        loop_exit_count == getFsmCount(m2)
        m3 == setFsm(setFsm(m2, body_end_count, act.a, None, NoState),
                     act.a, act.b, ForCond(act.iter, act.endv),
                     loop_exit_count)
        m4 == PatchAll(m3, "brk", getUnresolved(m3.scope, "brk"),
                       loop_exit_count, act.id)
        m5 == PatchAll(m4, "cont", getUnresolved(m4.scope, "cont"),
                       body_end_count, act.id)
    IN [m5 EXCEPT !.scope = clearJump(clearJump(@, "brk"), "cont")]

visit_For ==
    \E tok \in Tokens :
        /\ tok.t = "for"
        /\ Visiting(tok)
        /\ IF skip(scope)
           THEN Consume(tok, TRUE) /\ UNCHANGED <<fsm, scope, tmp_count, regs,
                                                  hist, ctl, phase, hw>>
           ELSE LET o == For_open(Machine, tok) IN
                /\ Consume(tok, FALSE)
                /\ Commit(o.m)
                /\ ctl' = Append(ctl,
                     [Activation("for", Len(src) + 1) EXCEPT
                         !.a = o.check_count, !.b = o.check_count + 1,
                         !.iter = o.var, !.endv = RangeEnd(tok.r),
                         !.step = RangeStep(tok.r)])
                /\ UNCHANGED <<phase, hw>>

visit_For_end ==
    \E tok \in Tokens :
        /\ tok.t = "end"
        /\ Visiting(tok)
        /\ Top.kind = "for"
        /\ Consume(tok, FALSE)
        /\ LET m1 == For_close(Machine, Top)
           IN Commit(Closed(m1, Top, m1.fsm.current, None))
        /\ ctl' = Pop(ctl)
        /\ UNCHANGED <<phase, hw>>

\* ------------------------------------------------- unsupported syntax
\* visit_Import, visit_ImportFrom, visit_ClassDef, lines 265-272
visit_Import ==
    \E tok \in Tokens :
        /\ tok.t = "import"
        /\ Visiting(tok)
        /\ Consume(tok, FALSE)
        /\ Raise(Machine)

\* visit_For, lines 413-419, when the iterable is no call of range: the
\* test fails and the method returns
visit_For_other ==
    \E tok \in Tokens :
        /\ tok.t = "forin"
        /\ Visiting(tok)
        /\ Consume(tok, FALSE)
        /\ UNCHANGED <<fsm, scope, tmp_count, regs, hist, ctl, phase, hw>>

\* ast.NodeVisitor.generic_visit, which visit() calls for a node without a
\* visit_ method: it visits the children; of an assert the test, whose
\* value is dropped
generic_visit ==
    \E tok \in Tokens :
        /\ tok.t = "assert"
        /\ Visiting(tok)
        /\ Consume(tok, FALSE)
        /\ IF visit(Machine, tok.e) = NameError THEN Raise(Machine)
           ELSE UNCHANGED <<fsm, scope, tmp_count, regs, hist, ctl, phase,
                            hw>>

\* ... of a try the statements of its body, in order
generic_visit_body ==
    \E tok \in Tokens :
        /\ tok.t = "try"
        /\ Visiting(tok)
        /\ Consume(tok, FALSE)
        /\ ctl' = Append(ctl, Activation("try", Len(src) + 1))
        /\ UNCHANGED <<fsm, scope, tmp_count, regs, hist, phase, hw>>

generic_visit_end ==
    \E tok \in Tokens :
        /\ tok.t = "end"
        /\ Visiting(tok)
        /\ Top.kind = "try"
        /\ Consume(tok, FALSE)
        /\ ctl' = Pop(ctl)
        /\ UNCHANGED <<fsm, scope, tmp_count, regs, hist, phase, hw>>

\* --------------------------------------------------- the emitted hardware
\* The FSM as a circuit: a state register, starting at 0, and the registers
\* of the module, starting at their initval 0.  On a clock edge the
\* statements of the present state assign their registers and the
\* transitions leaving it set the state register; all right-hand sides read
\* the values before the edge.
Signals == [LocalObjects -> {0, 1}]

RegIndex(r) == CHOOSE i \in DOMAIN regs : regs[i] = r

Operand(r, val, in) == IF IsExt(r) THEN in[r.base] ELSE val[RegIndex(r)]

Eval(node, val, in) ==
    CASE node.kind = "Int" -> node.k
      [] node.kind = "Eq" ->
            IF Operand(node.reg, val, in) = node.k THEN 1 ELSE 0
      [] node.kind = "NotEq" ->
            IF Operand(node.reg, val, in) # node.k THEN 1 ELSE 0
      [] node.kind = "Var" -> Operand(node.reg, val, in)
      [] node.kind = "Plus" -> Operand(node.reg, val, in) + node.k
      [] node.kind = "Cond" ->
            IF Operand(node.reg, val, in) # 0 THEN node.k ELSE 0
      [] node.kind = "LessThan" ->
            IF Operand(node.reg, val, in) < node.k THEN 1 ELSE 0
      [] OTHER -> 0

\* the target of transition t (NoState: the state register keeps its value)
Target(t, val, in) ==
    IF t.cond = None THEN t.dst
    ELSE IF Eval(t.cond, val, in) # 0 THEN t.dst
    ELSE t.else_dst

RECURSIVE NextState(_, _, _, _, _)
\* the transitions leaving state s, in the order they were recorded: the
\* last one that assigns the state register decides
NextState(trans, s, cur, val, in) ==
    IF trans = <<>> THEN cur
    ELSE LET t == Head(trans)
             d == IF t.src = s THEN Target(t, val, in) ELSE NoState
         IN NextState(Tail(trans), s, IF d = NoState THEN cur ELSE d, val, in)

\* a register narrower than the data width keeps the low bits
Wrap(v, width) == IF width < datawidth THEN v % (2 ^ width) ELSE v

RECURSIVE NextValues(_, _, _, _, _)
NextValues(stmts, s, new, val, in) ==
    IF stmts = <<>> THEN new
    ELSE LET b == Head(stmts) IN
         NextValues(Tail(stmts), s,
                    IF b.state = s /\ b.var # NoReg
                    THEN [new EXCEPT ![RegIndex(b.var)] =
                             Wrap(Eval(b.value, val, in), b.var.width)]
                    ELSE new,
                    val, in)

\* the state registers of the FSMs, read like signals
FsmStates(h) ==
    [n \in {FsmName(k) : k \in 0..Len(threads)} |->
        IF n = FsmName(0) THEN h.state
        ELSE h.child[CHOOSE k \in DOMAIN threads : FsmName(k) = n]]

RECURSIVE ChildValues(_, _, _, _)
\* the statements of the present states of the child FSMs from the k-th on
ChildValues(k, new, h, in) ==
    IF k > Len(threads) THEN new
    ELSE ChildValues(k + 1,
                     NextValues(threads[k].thread_fsm.stmts, h.child[k], new,
                                h.val, in),
                     h, in)

ChildLeaves(k, s) ==
    \E i \in DOMAIN threads[k].thread_fsm.trans :
        threads[k].thread_fsm.trans[i].src = s

\* the signals that the transitions leaving state s read
Reads(s) ==
    {fsm.trans[i].cond.reg.base : i \in
        {j \in DOMAIN fsm.trans : /\ fsm.trans[j].src = s
                                  /\ fsm.trans[j].cond # None
                                  /\ IsExt(fsm.trans[j].cond.reg)}}

Leaves(s) == \E i \in DOMAIN fsm.trans : fsm.trans[i].src = s

\* the lowering is complete: the circuit starts from reset
Start ==
    /\ phase = "done"
    /\ ~free
    /\ phase' = "run"
    /\ hw' = [state |-> 0, val |-> [i \in DOMAIN regs |-> 0], trace |-> <<>>,
              child |-> [k \in DOMAIN threads |-> 0]]
    /\ UNCHANGED <<fsm, scope, tmp_count, regs, ctl, src, todo, free, hist,
                   lib, threads>>

\* one clock edge; the signals it does not read are 0
Clock ==
    /\ phase = "run"
    /\ Len(hw.trace) < MaxCycles
    /\ \/ Leaves(hw.state)
       \/ \E k \in DOMAIN threads : ChildLeaves(k, hw.child[k])
    /\ \E in \in Signals :
        /\ \A n \in LocalObjects \ Reads(hw.state) : in[n] = 0
        /\ LET env == in @@ FsmStates(hw) IN
           hw' = [state |-> NextState(fsm.trans, hw.state, hw.state, hw.val,
                                      env),
                  val |-> ChildValues(1, NextValues(fsm.stmts, hw.state,
                                                    hw.val, hw.val, env),
                                      hw, env),
                  child |-> [k \in DOMAIN threads |->
                                NextState(threads[k].thread_fsm.trans,
                                          hw.child[k], hw.child[k], hw.val,
                                          env)],
                  trace |-> Append(hw.trace,
                      [state |-> hw.state, in |-> in, val |-> hw.val,
                       child |-> hw.child])]
    /\ UNCHANGED <<fsm, scope, tmp_count, regs, ctl, phase, src, todo, free,
                   hist, lib, threads>>

\* ------------------------------------------------------------------ Spec
NewHw   == [state |-> 0, val |-> <<>>, trace |-> <<>>, child |-> <<>>]

\* ThreadGenerator.create: a new FSM and a new CompileVisitor
Init ==
    /\ fsm = NewFSM(0)
    /\ scope = NewScope
    /\ tmp_count = 0
    /\ regs = <<>>
    /\ ctl = <<>>
    /\ phase = "lower"
    /\ src = <<>>
    /\ todo = <<>>
    /\ free = TRUE
    /\ hist = NewHist
    /\ hw = NewHw
    /\ function_lib = {}
    /\ intrinsic_functions = {}
    /\ intrinsic_methods = NewMethods
    /\ threads = <<>>

\* an extend that lowers into a new FSM, as create does
extend_new(f) == NewFSM(0)

\* extend, lines 118-122: the FSM that was passed is lowered into and returned
extend_do(f) == f

\* ThreadGenerator.extend: a new CompileVisitor on the FSM as it is
extend ==
    /\ phase = "done"
    /\ free
    /\ Len(src) + 2 <= MaxTokens
    /\ phase' = "lower"
    /\ scope' = NewScope
    /\ fsm' = extend_do(fsm)
    /\ hist' = [hist EXCEPT !.entry = [op |-> "extend", fsm |-> fsm]]
    /\ UNCHANGED <<tmp_count, regs, ctl, src, todo, free, hw, lib, threads>>

\* ThreadGenerator.run: a child FSM, entered when the parent FSM is in its
\* current state, and a new CompileVisitor on it; the name of the child
\* takes a number from the counter.  The methods of the ThreadInfo that run
\* returns are registered; its end_state is not kept, as this FSM is not
\* executed.
run ==
    /\ phase = "done"
    /\ free
    /\ Len(src) + 2 <= MaxTokens
    /\ phase' = "lower"
    /\ fsm' = goto_next(NewFSM(0), Equals(StateReg(0), fsm.current))
    /\ tmp_count' = tmp_name(Machine, Prefix("child", "worker", 0)).cnt
    /\ scope' = NewScope
    /\ hist' = [NewHist EXCEPT
                  !.base = Len(regs),
                  !.names = tmp_name(Machine,
                                     Prefix("child", "worker", 0)).hist.names,
                  !.entry = [op |-> "run", fsm |-> fsm']]
    /\ intrinsic_methods' = intrinsic_methods \cup ThreadMethods(NextThread)
    /\ UNCHANGED <<regs, ctl, src, todo, free, hw, function_lib,
                   intrinsic_functions, threads>>

Lower ==
    \/ visit_Assign
    \/ visit_If
    \/ visit_If_orelse
    \/ visit_If_end
    \/ visit_While
    \/ visit_While_end
    \/ visit_For
    \/ visit_For_end
    \/ visit_Break
    \/ visit_Continue
    \/ visit_Return
    \/ visit_Call
    \/ visit_Call_end

Next == Lower \/ extend \/ run

Spec == Init /\ [][Next]_vars

\* ------------------------------------------------------------- SpecProg
\* Programs whose emitted FSM is executed.  The first token is the call of
\* the thread function made by _synthesize_fsm, the last its end.
Thread(body) == <<Call("", NoExpr)>> \o body \o <<End>>

\* integer arguments of range(...): 1, 2 or 3 of them; a negative step only
\* from a begin that is not below the end
Ranges ==
    {<<e>> : e \in 0..MaxConst}
    \cup {<<b, e>> : b \in 0..MaxConst, e \in 0..MaxConst}
    \cup {r \in {<<b, e, st>> : b \in 0..MaxConst, e \in 0..MaxConst,
                               st \in {0 - 1, 1, 2}} : r[3] > 0 \/ r[1] >= r[2]}

\* x = 0 ; for i in range(r): x = x + 1
ForProg(r) ==
    Thread(<<Assign("x", Num(0)), For("i", r), Assign("x", BinOpAdd("x", 1)),
             End>>)

\* x = 0 ; for i in range(r): (if c: jump) ; x = x + 1
ForJumpProg(r, jump) ==
    Thread(<<Assign("x", Num(0)), For("i", r), If(NameE("c")), jump, End,
             Assign("x", BinOpAdd("x", 1)), End>>)

\* y = 0 ; while c: (if d: break) ; y = y + 1
BreakInWhile ==
    Thread(<<Assign("y", Num(0)), While(NameE("c")), If(NameE("d")), Break,
             End, Assign("y", BinOpAdd("y", 1)), End>>)

\* y = f(c) with  def f(a): if a: return 1 ; return 2
EarlyReturn ==
    Thread(<<AssignCall("y", "a", NameE("c")), If(NameE("a")), ReturnV(Num(1)),
             End, ReturnV(Num(2)), End>>)

\* f() with  def g(x): return x + 1  and  def f(): return g(3)
NestedCall ==
    Thread(<<Call("", NoExpr), ReturnCall("x", Num(3)),
             ReturnV(BinOpAdd("x", 1)), End, End>>)

\* y = f() with  def f(): (if c: return) ; x = 1
BareReturn ==
    Thread(<<AssignCall("y", "", NoExpr), If(NameE("c")), Return, End,
             Assign("x", Num(1)), End>>)

\* if c: y = 1 else: y = 2 ; x = 3
IfElse ==
    Thread(<<If(NameE("c")), Assign("y", Num(1)), Else, Assign("y", Num(2)),
             End, Assign("x", Num(3))>>)

\* y = 0 ; while c: (if d: jump) ; while d: y = y + 1
JumpThenWhile(jump) ==
    Thread(<<Assign("y", Num(0)), While(NameE("c")), If(NameE("d")), jump, End,
             While(NameE("d")), Assign("y", BinOpAdd("y", 1)), End, End>>)

\* x = 0 ; for i in range(2): (if c: jump) ; while d: x = x + 1
JumpThenWhileInFor(jump) ==
    Thread(<<Assign("x", Num(0)), For("i", <<2>>), If(NameE("c")), jump, End,
             While(NameE("d")), Assign("x", BinOpAdd("x", 1)), End, End>>)

\* y = 0 ; x = 0 ; for i in range(10): x = x + 1
Counting ==
    Thread(<<Assign("y", Num(0)), Assign("x", Num(0)), For("i", <<10>>),
             Assign("x", BinOpAdd("x", 1)), End>>)

\* def f(a, b), def f(a, b = 3), def f(a = 3, b = 3) called with up to two
\* positional arguments (1) and keyword arguments (2) in either order
ArgSigs ==
    {Sig(<<"a", "b">>, d, a, k) :
        d \in {<<>>, <<Num(3)>>, <<Num(3), Num(3)>>},
        a \in {<<>>, <<Num(1)>>, <<Num(1), Num(1)>>},
        k \in {<<>>, <<Keyword("a", Num(2))>>, <<Keyword("b", Num(2))>>,
               <<Keyword("a", Num(2)), Keyword("b", Num(2))>>,
               <<Keyword("b", Num(2)), Keyword("a", Num(2))>>}}

\* the call gives parameter i of sig a positional or a keyword argument
ByPosition(sig, i) == i <= Len(sig.args)
ByKeyword(sig, i) == \E j \in DOMAIN sig.keywords :
                         sig.keywords[j].arg = sig.params[i]
HasDefault(sig, i) == i > Len(sig.params) - Len(sig.defaults)

\* a call Python accepts: each parameter is given once or has a default
ValidCall(sig) ==
    /\ Len(sig.args) <= Len(sig.params)
    /\ \A i \in DOMAIN sig.params :
          /\ ~(ByPosition(sig, i) /\ ByKeyword(sig, i))
          /\ ByPosition(sig, i) \/ ByKeyword(sig, i) \/ HasDefault(sig, i)

\* pre = 0 ; y = f(..) with  def f(a, b): return b + 1
ArgProg(pre, sig) ==
    Thread(<<Assign(pre, Num(0)), CallWith("y", sig),
             ReturnV(BinOpAdd("b", 1)), End>>)

ArgProgs == {ArgProg(pre, sig) : pre \in {"b", "x"},
                                sig \in {g \in ArgSigs : ValidCall(g)}}

\* pre = 0 ; y = f(1) ; y = f(2) with  def f(x): z = x + 1 ; return z
TwoCalls(pre) ==
    Thread(<<Assign(pre, Num(0)),
             CallWith("y", Sig(<<"x">>, <<>>, <<Num(1)>>, <<>>)),
             Assign("z", BinOpAdd("x", 1)), ReturnV(NameE("z")), End,
             CallWith("y", Sig(<<"x">>, <<>>, <<Num(2)>>, <<>>)),
             Assign("z", BinOpAdd("x", 1)), ReturnV(NameE("z")), End>>)

TwoCallsProgs == {TwoCalls(pre) : pre \in {"x", "z", "i"}}

\* first ; y = x + 1  where first is  x = x + 1,  x += 1  or  x = 1
FirstUse(first) == Thread(<<first, Assign("y", BinOpAdd("x", 1))>>)

FirstUseProgs ==
    {FirstUse(f) : f \in {Assign("x", BinOpAdd("x", 1)), AugAssign("x", 1),
                          Assign("x", Num(1))}}

\* x = 1 ; x += 2
AugAfter == Thread(<<Assign("x", Num(1)), AugAssign("x", 2)>>)

\* x = 1 ; f(2) ; z = 3   or   x = 1 ; y = f(2) ; z = 3
\* with  def f(a): return 1
DispatchProg(y, f) ==
    Thread(<<Assign("x", Num(1)), NameCall(y, f, Num(2)), ReturnV(Num(1)),
             End, Assign("z", Num(3))>>)

DispatchProgs ==
    {DispatchProg(y, f) : y \in {"", "y"}, f \in {"int", "g", "stall"}}
    \cup {DispatchProg("", "print")}

\* the intrinsic functions registered when a DispatchProg is lowered
Registered == {{}, {FuncId("g"), FuncId("stall")},
               {FuncId("print"), FuncId("int"), FuncId("g"), FuncId("stall")}}

\* th = thgen.run(worker) ; th.wait() ; z = 1
WaitProg(n) ==
    Thread(<<MethodCall("th", "thgen", "run", Worker(n)), End,
             MethodCall("", "th", "wait", NoExpr), End, Assign("z", Num(1))>>)

\* th = thgen.run(worker) ; b = th.busy() ; th.wait() ; b = th.busy()
BusyProg(n) ==
    Thread(<<MethodCall("th", "thgen", "run", Worker(n)), End,
             MethodCall("b", "th", "busy", NoExpr), End,
             MethodCall("", "th", "wait", NoExpr), End,
             MethodCall("b", "th", "busy", NoExpr), End>>)

\* x = 1 ; th = thgen.run(worker) ; x = 2 ; x = 3
RunProg(n) ==
    Thread(<<Assign("x", Num(1)),
             MethodCall("th", "thgen", "run", Worker(n)), End,
             Assign("x", Num(2)), Assign("x", Num(3))>>)

ThreadProgs == {WaitProg(n) : n \in 0..MaxWorker}
               \cup {BusyProg(n) : n \in 0..MaxWorker}
               \cup {RunProg(n) : n \in 0..MaxWorker}

\* thgen.sleep(n) ; z = 1
SleepProg(n) ==
    Thread(<<MethodCall("", "thgen", "sleep", Num(n)), End,
             Assign("z", Num(1))>>)

SleepProgs == {SleepProg(n) : n \in 1..MaxSleep}

Programs ==
    ArgProgs \cup TwoCallsProgs \cup FirstUseProgs \cup {AugAfter} \cup
    DispatchProgs \cup ThreadProgs \cup SleepProgs \cup
    {ForProg(r) : r \in Ranges \cup {<<10>>}}
    \cup {ForJumpProg(<<2>>, j) : j \in {Break, Continue}}
    \cup {JumpThenWhile(j) : j \in {Break, Continue}}
    \cup {JumpThenWhileInFor(j) : j \in {Break, Continue}}
    \cup {BreakInWhile, EarlyReturn, NestedCall, BareReturn, IfElse, Counting}

\* the program that is lowered
Program == src \o todo

InitProg ==
    /\ fsm = NewFSM(0)
    /\ scope = NewScope
    /\ tmp_count = 0
    /\ regs = <<>>
    /\ ctl = <<>>
    /\ phase = "lower"
    /\ src = <<>>
    /\ todo \in Programs
    /\ free = FALSE
    /\ hist = NewHist
    /\ hw = NewHw
    /\ function_lib = {}
    /\ intrinsic_functions \in IF todo \in DispatchProgs THEN Registered
                               ELSE {{}}
    /\ intrinsic_methods = NewMethods
    /\ threads = <<>>

LowerIntrinsic ==
    \/ visit_Call_print
    \/ visit_Call_int
    \/ visit_Call_intrinsic
    \/ visit_Call_method

NextProg == Lower \/ visit_AugAssign \/ LowerIntrinsic \/ Start \/ Clock

SpecProg == InitProg /\ [][NextProg]_vars

\* -------------------------------------------------------------- SpecReg
\* Registrations made by the program that builds the threads, before and
\* after a thread that runs two children is lowered.

\* th = thgen.run(worker) ; th = thgen.run(worker)
TwoRuns ==
    Thread(<<MethodCall("th", "thgen", "run", Worker(0)), End,
             MethodCall("th", "thgen", "run", Worker(1)), End>>)

\* two functions of each name; the methods of the generator and of the
\* ThreadInfo objects, a method of another object, and an int
Functions == {Function(i, n) : i \in {0, 1}, n \in {"f", "g"}}
Registrable ==
    Functions \cup NewMethods
    \cup UNION {ThreadMethods(k) : k \in DOMAIN threads}
    \cup {Method("RAM", 0, "read"), Method("int", 0, "")}

\* the program is not inside the lowering of a thread
Outside ==
    /\ \/ phase = "lower" /\ src = <<>>
       \/ phase = "done"
    /\ hist.reg.n < MaxRegs

Attempt(op, func, raised) ==
    hist' = [hist EXCEPT !.reg = [n |-> @.n + 1, op |-> op, func |-> func,
                                  raised |-> raised]]

\* thgen.add_function(func), lines 64-70
add_function ==
    /\ Outside
    /\ \E func \in Functions :
          LET r == add_function_do(function_lib, func) IN
          /\ function_lib' = r.reg
          /\ Attempt("add_function", func, r.raised)
    /\ UNCHANGED <<fsm, scope, tmp_count, regs, ctl, phase, src, todo, free,
                   hw, intrinsic_functions, intrinsic_methods, threads>>

\* thgen.intrinsic(func), lines 72-77
intrinsic ==
    /\ Outside
    /\ \E func \in Registrable :
          LET r == intrinsic_do(intrinsic_functions, intrinsic_methods, func)
          IN /\ intrinsic_functions' = r.fs
             /\ intrinsic_methods' = r.ms
             /\ Attempt("intrinsic", func, r.raised)
    /\ UNCHANGED <<fsm, scope, tmp_count, regs, ctl, phase, src, todo, free,
                   hw, function_lib, threads>>

InitReg ==
    /\ fsm = NewFSM(0)
    /\ scope = NewScope
    /\ tmp_count = 0
    /\ regs = <<>>
    /\ ctl = <<>>
    /\ phase = "lower"
    /\ src = <<>>
    /\ todo = TwoRuns
    /\ free = FALSE
    /\ hist = NewHist
    /\ hw = NewHw
    /\ function_lib = {}
    /\ intrinsic_functions = {}
    /\ intrinsic_methods = NewMethods
    /\ threads = <<>>

NextReg ==
    \/ add_function
    \/ intrinsic
    \/ visit_Call
    \/ visit_Call_method
    \/ visit_Call_end

SpecReg == InitReg /\ [][NextReg]_vars

\* ------------------------------------------------------------ SpecNames
\* Several threads created one after the other in one module, with reset()
\* called between them or not.

\* the threads created after the first one
NamePrograms == {TwoRuns, WaitProg(1), TwoCalls("x")}

\* create, lines 88-104: a new FSM and a new CompileVisitor; the module,
\* the registries and the counter behind the names stay
create ==
    /\ phase = "done"
    /\ ~free
    /\ hist.created < MaxCreate
    /\ phase' = "lower"
    /\ fsm' = NewFSM(0)
    /\ scope' = NewScope
    /\ ctl' = <<>>
    /\ src' = <<>>
    /\ todo' \in NamePrograms
    /\ hist' = [NewHist EXCEPT !.base = Len(regs), !.names = hist.names,
                               !.created = hist.created + 1,
                               !.cnt0 = tmp_count]
    /\ UNCHANGED <<tmp_count, regs, free, hw, lib, threads>>

\* extend, lines 106-122, for a thread function of NamePrograms: a new
\* CompileVisitor on the FSM that an earlier create or extend returned
extend_thread ==
    /\ phase = "done"
    /\ ~free
    /\ hist.created < MaxCreate
    /\ phase' = "lower"
    /\ fsm' = extend_do(fsm)
    /\ scope' = NewScope
    /\ ctl' = <<>>
    /\ src' = <<>>
    /\ todo' \in NamePrograms
    /\ hist' = [NewHist EXCEPT !.base = Len(regs), !.names = hist.names,
                               !.created = hist.created + 1,
                               !.cnt0 = tmp_count,
                               !.entry = [op |-> "extend", fsm |-> fsm]]
    /\ UNCHANGED <<tmp_count, regs, free, hw, lib, threads>>

\* a reset that leaves the counter as it is
reset_keep(cnt) == cnt

\* reset, lines 20-22
reset_do(cnt) == 0

\* reset() called between the lowerings of two threads
reset ==
    /\ \/ phase = "lower" /\ src = <<>>
       \/ phase = "done"
    /\ ~free
    /\ hist.names # <<>>
    /\ tmp_count' = reset_do(tmp_count)
    /\ hist' = [hist EXCEPT !.names = <<>>,
                             !.cnt0 = IF phase = "lower"
                                      THEN reset_do(tmp_count) ELSE @]
    /\ UNCHANGED <<fsm, scope, regs, ctl, phase, src, todo, free, hw, lib,
                   threads>>

NextNames ==
    \/ Lower
    \/ visit_AugAssign
    \/ LowerIntrinsic
    \/ create
    \/ extend_thread
    \/ reset

SpecNames == InitProg /\ [][NextNames]_vars

Range(f) == {f[i] : i \in DOMAIN f}

\* ------------------------------------------------------------ SpecTwice
\* One thread function lowered twice, each lowering into a new module by a
\* new ThreadGenerator, its keyword arguments passed in one order or another.

\* the keys of the keyword arguments, in the order of sorted()
KeyOrder == <<"a", "b">>
Rank(k) == CHOOSE i \in DOMAIN KeyOrder : KeyOrder[i] = k

Remove(s, i) == SubSeq(s, 1, i - 1) \o SubSeq(s, i + 1, Len(s))

RECURSIVE sorted(_)
\* sorted(kwargs.items(), key=lambda x: x[0]), line 196
sorted(kwargs) ==
    IF kwargs = <<>> THEN <<>>
    ELSE LET i == CHOOSE i \in DOMAIN kwargs : \A j \in DOMAIN kwargs :
                      Rank(kwargs[i].arg) <= Rank(kwargs[j].arg)
         IN <<kwargs[i]>> \o sorted(Remove(kwargs, i))

\* a call of the thread function with its keywords in the order passed
call_code_passed(params, args, kwargs) ==
    [Call("", NoExpr) EXCEPT !.sig = Sig(params, <<>>, args, kwargs)]

\* _synthesize_fsm, lines 186-204: targ(__arg_0, .., k=__kwarg_0, ..), the
\* objects passed standing for the names __arg_i and __kwarg_i
call_code(params, args, kwargs) ==
    [Call("", NoExpr) EXCEPT !.sig = Sig(params, <<>>, args, sorted(kwargs))]

\* the orders in which the same keyword arguments can be passed
Orders(kwargs) ==
    {k \in [DOMAIN kwargs -> Range(kwargs)] :
        \A x \in Range(kwargs) : \E i \in DOMAIN k : k[i] = x}

\* create(m, name, clk, rst, t, ...) with  def t(a, b): x = a + 1 ; y = b + 1
\* called as t(a=1, b=2), t(b=2, a=1) or t(1, b=2)
Passed ==
    {[args |-> <<>>, kwargs |-> k] :
        k \in Orders(<<Keyword("a", Num(1)), Keyword("b", Num(2))>>)}
    \cup {[args |-> <<Num(1)>>, kwargs |-> <<Keyword("b", Num(2))>>]}

KwBody == <<Assign("x", BinOpAdd("a", 1)), Assign("y", BinOpAdd("b", 1)), End>>

KwThread(p) == <<call_code(<<"a", "b">>, p.args, p.kwargs)>> \o KwBody

InitTwice ==
    /\ fsm = NewFSM(0)
    /\ scope = NewScope
    /\ tmp_count = 0
    /\ regs = <<>>
    /\ ctl = <<>>
    /\ phase = "lower"
    /\ src = <<>>
    /\ free = FALSE
    /\ \/ todo \in Programs /\ hist = NewHist
       \/ \E p \in Passed : /\ todo = KwThread(p)
                            /\ hist = [NewHist EXCEPT !.passed = p.kwargs]
    /\ hw = NewHw
    /\ function_lib = {}
    /\ intrinsic_functions \in IF todo \in DispatchProgs THEN Registered
                               ELSE {{}}
    /\ intrinsic_methods = NewMethods
    /\ threads = <<>>

\* what a completed lowering leaves: the program and its arguments, the
\* counter it started from, and everything it emitted
Emitted ==
    [body |-> Tail(Program), args |-> Program[1].sig.args,
     kwargs |-> Range(Program[1].sig.keywords), passed |-> hist.passed,
     cnt0 |-> hist.cnt0, fsm |-> fsm, regs |-> regs, threads |-> threads,
     hw |-> hw]

\* the same function with the same arguments lowered again, by a new
\* ThreadGenerator into a new module
again ==
    /\ phase = "done"
    /\ ~free
    /\ hist.first = <<>>
    /\ \E k \in Orders(hist.passed) :
          /\ todo' = <<call_code(Program[1].sig.params, Program[1].sig.args,
                                 k)>> \o Tail(Program)
          /\ hist' = [NewHist EXCEPT !.names = hist.names,
                                     !.cnt0 = tmp_count, !.passed = k,
                                     !.first = <<Emitted>>]
    /\ phase' = "lower"
    /\ fsm' = NewFSM(0)
    /\ scope' = NewScope
    /\ ctl' = <<>>
    /\ src' = <<>>
    /\ regs' = <<>>
    /\ hw' = NewHw
    /\ intrinsic_methods' = NewMethods
    /\ threads' = <<>>
    /\ UNCHANGED <<tmp_count, free, function_lib, intrinsic_functions>>

NextTwice ==
    \/ Lower
    \/ visit_AugAssign
    \/ LowerIntrinsic
    \/ reset
    \/ again

SpecTwice == InitTwice /\ [][NextTwice]_vars

\* ----------------------------------------------------------- SpecAssign
\* a = 1 ; b = 2 ; then one assignment with one or two targets, each a name
\* or a tuple of names and tuples, and a value that is an expression or a
\* tuple of expressions and tuples
TargetNames == {TName("a"), TName("b")}
TargetPairs == {TTuple(<<x, y>>) : x \in TargetNames, y \in TargetNames}
TargetTriple == TTuple(<<TName("a"), TName("b"), TName("c")>>)
TargetTrees ==
    TargetNames \cup {TTuple(<<x>>) : x \in TargetNames} \cup TargetPairs
    \cup {TTuple(<<x, p>>) : x \in TargetNames, p \in TargetPairs}
    \cup {TargetTriple}

ValueExprs == {EOne(Num(1)), EOne(NameE("a")), EOne(NameE("b")),
               EOne(IfExp("a", 1))}
ValuePairs == {ETuple(<<x, y>>) : x \in ValueExprs, y \in ValueExprs}
ValueTriples ==
    {ETuple(<<x, y, z>>) : x \in ValueExprs, y \in ValueExprs,
                           z \in ValueExprs}
ValueTrees ==
    ValueExprs \cup ValuePairs \cup ValueTriples
    \cup {ETuple(<<x, p>>) : x \in ValueExprs,
                             p \in ValuePairs \cup ValueTriples}

AssignProg(targets, value) ==
    Thread(<<Assign("a", Num(1)), Assign("b", Num(2)),
             Assigns(targets, value), End>>)

\* return 1 ; a, b = b, a
AssignSkipped ==
    Thread(<<ReturnV(Num(1)),
             Assigns(<<TTuple(<<TName("a"), TName("b")>>)>>,
                     ETuple(<<EOne(Num(1)), EOne(Num(1))>>)), End>>)

AssignProgs ==
    {AssignProg(<<t>>, v) : t \in TargetTrees, v \in ValueTrees}
    \cup {AssignProg(<<t, u>>, v) :
            t \in TargetPairs, u \in {TName("c"), TargetTriple},
            v \in ValuePairs}
    \cup {AssignSkipped}
    \cup {Thread(<<Assign("a", e), Assign("b", Num(2)), AugAssign(x, n),
                   End>>) :
            e \in {Num(1), IfExp("c", 1), BinOpAdd("c", 1)},
            x \in {"a", "b"}, n \in 1..MaxConst}

InitAssign ==
    /\ fsm = NewFSM(0)
    /\ scope = NewScope
    /\ tmp_count = 0
    /\ regs = <<>>
    /\ ctl = <<>>
    /\ phase = "lower"
    /\ src = <<>>
    /\ todo \in AssignProgs
    /\ free = FALSE
    /\ hist = NewHist
    /\ hw = NewHw
    /\ function_lib = {}
    /\ intrinsic_functions = {}
    /\ intrinsic_methods = NewMethods
    /\ threads = <<>>

NextAssign ==
    \/ visit_Call
    \/ visit_Call_end
    \/ visit_Return
    \/ visit_Assign
    \/ visit_AugAssign
    \/ visit_Assign_targets

SpecAssign == InitAssign /\ [][NextAssign]_vars

\* -------------------------------------------------------------- SpecRec
\* x = n ; then a call, or an assignment of a call, of a function of the
\* source that calls other functions or itself
RecProg(n, x, f) == Thread(<<Assign("x", Num(n)), DefCall(x, f), End>>)

RecProgs ==
    {RecProg(n, x, f) : n \in 0..MaxConst, x \in {"", "y", "x"},
                        f \in DOMAIN FunctionDefs}

InitRec ==
    /\ fsm = NewFSM(0)
    /\ scope = NewScope
    /\ tmp_count = 0
    /\ regs = <<>>
    /\ ctl = <<>>
    /\ phase = "lower"
    /\ src = <<>>
    /\ todo \in RecProgs
    /\ free = FALSE
    /\ hist = NewHist
    /\ hw = NewHw
    /\ function_lib = {}
    /\ intrinsic_functions = {}
    /\ intrinsic_methods = NewMethods
    /\ threads = <<>>

NextRec ==
    \/ visit_Call
    \/ visit_Call_def
    \/ visit_Call_end
    \/ visit_Assign

SpecRec == InitRec /\ [][NextRec]_vars

\* ----------------------------------------------------------- SpecSyntax
\* x = n ; one statement outside the accepted language ; x = x + 1
Outsiders ==
    {Unsupported(v) : v \in {"Import", "ImportFrom", "ClassDef"}}
    \cup {ForIn("i", e) : e \in {NameE("c"), NameE("x"), Num(1)}}
    \cup {AssertStmt(e) : e \in {NameE("c"), NameE("x"), NameE("y")}}

SyntaxProgs ==
    {Thread(<<Assign("x", Num(n)), o, Assign("x", BinOpAdd("x", 1)), End>>) :
        n \in 0..MaxConst, o \in Outsiders}
    \cup {Thread(<<Assign("x", Num(n)), Try, Assign("y", Num(m)), End,
                   Assign("x", BinOpAdd("x", 1)), End>>) :
            n \in 0..MaxConst, m \in 0..MaxConst}

InitSyntax ==
    /\ fsm = NewFSM(0)
    /\ scope = NewScope
    /\ tmp_count = 0
    /\ regs = <<>>
    /\ ctl = <<>>
    /\ phase = "lower"
    /\ src = <<>>
    /\ todo \in SyntaxProgs
    /\ free = FALSE
    /\ hist = NewHist
    /\ hw = NewHw
    /\ function_lib = {}
    /\ intrinsic_functions = {}
    /\ intrinsic_methods = NewMethods
    /\ threads = <<>>

NextSyntax ==
    \/ visit_Call
    \/ visit_Call_end
    \/ visit_Assign
    \/ visit_Import
    \/ visit_For_other
    \/ generic_visit
    \/ generic_visit_body
    \/ generic_visit_end

SpecSyntax == InitSyntax /\ [][NextSyntax]_vars

\* ------------------------------------------------------------- SpecBare
\* Thread functions with a break or a continue that no loop encloses, in the
\* thread function itself or in a function it calls; the FSM is executed.
\* x = n ; break ; x = 1
BareTop(n, j) == Thread(<<Assign("x", Num(n)), j, Assign("x", Num(1))>>)

\* x = n ; f() ; x = 1  with  def f(): y = n ; break ; y = 1
BareInner(n, j) ==
    Thread(<<Assign("x", Num(n)), Call("", NoExpr), Assign("y", Num(n)), j,
             Assign("y", Num(1)), End, Assign("x", Num(1))>>)

BareProgs ==
    {BareTop(n, j) : n \in 0..MaxConst, j \in {Break, Continue}}
    \cup {BareInner(n, j) : n \in 0..MaxConst, j \in {Break, Continue}}
    \cup {Thread(<<j>>) : j \in {Break, Continue}}

InitBare ==
    /\ fsm = NewFSM(0)
    /\ scope = NewScope
    /\ tmp_count = 0
    /\ regs = <<>>
    /\ ctl = <<>>
    /\ phase = "lower"
    /\ src = <<>>
    /\ todo \in BareProgs
    /\ free = FALSE
    /\ hist = NewHist
    /\ hw = NewHw
    /\ function_lib = {}
    /\ intrinsic_functions = {}
    /\ intrinsic_methods = NewMethods
    /\ threads = <<>>

NextBare ==
    \/ visit_Call
    \/ visit_Call_end
    \/ visit_Assign
    \/ visit_Break
    \/ visit_Continue
    \/ Start
    \/ Clock

SpecBare == InitBare /\ [][NextBare]_vars

\* ------------------------------------------------------------ SpecSleep
\* Thread functions that call sleep inside a loop, so that the executed FSM
\* enters the state of the sleep more than once.
\* while c: thgen.sleep(n)
SleepInWhile(n) ==
    Thread(<<While(NameE("c")), MethodCall("", "thgen", "sleep", Num(n)), End,
             End>>)

\* for i in range(2): thgen.sleep(n)
SleepInFor(n) ==
    Thread(<<For("i", <<2>>), MethodCall("", "thgen", "sleep", Num(n)), End,
             End>>)

SleepLoopProgs ==
    {SleepInWhile(n) : n \in 1..MaxConst} \cup
    {SleepInFor(n) : n \in 1..MaxConst} \cup
    {SleepProg(n) : n \in 1..MaxConst}

InitSleep ==
    /\ fsm = NewFSM(0)
    /\ scope = NewScope
    /\ tmp_count = 0
    /\ regs = <<>>
    /\ ctl = <<>>
    /\ phase = "lower"
    /\ src = <<>>
    /\ todo \in SleepLoopProgs
    /\ free = FALSE
    /\ hist = NewHist
    /\ hw = NewHw
    /\ function_lib = {}
    /\ intrinsic_functions = {}
    /\ intrinsic_methods = NewMethods
    /\ threads = <<>>

NextSleep ==
    \/ visit_Call
    \/ visit_Call_end
    \/ visit_Assign
    \/ visit_While
    \/ visit_While_end
    \/ visit_For
    \/ visit_For_end
    \/ visit_Call_method
    \/ Start
    \/ Clock

SpecSleep == InitSleep /\ [][NextSleep]_vars


\* -------------------------------------------------------- SpecWhileCall
\* Thread functions with a loop whose test is a call of a function that is
\* inlined; the FSM is executed.
\* x = n ; while f(x): x = 0  with  def f(a): return a
WhileCallProg(n) ==
    Thread(<<Assign("x", Num(n)), WhileCall("a", NameE("x")),
             ReturnV(NameE("a")), End, Assign("x", Num(0)), End>>)

\* x = n ; while f(x): (if c: continue) ; x = 0  with  def f(a): return a
WhileCallContinue(n) ==
    Thread(<<Assign("x", Num(n)), WhileCall("a", NameE("x")),
             ReturnV(NameE("a")), End, If(NameE("c")), Continue, End,
             Assign("x", Num(0)), End>>)

\* x = n ; return ; while f(x): x = 0
WhileCallSkipped(n) ==
    Thread(<<Assign("x", Num(n)), Return, WhileCall("a", NameE("x")),
             ReturnV(NameE("a")), End, Assign("x", Num(0)), End>>)

WhileCallProgs ==
    {WhileCallProg(n) : n \in 0..MaxConst} \cup
    {WhileCallContinue(n) : n \in 0..MaxConst} \cup
    {WhileCallSkipped(n) : n \in 0..MaxConst}

InitWhileCall ==
    /\ fsm = NewFSM(0)
    /\ scope = NewScope
    /\ tmp_count = 0
    /\ regs = <<>>
    /\ ctl = <<>>
    /\ phase = "lower"
    /\ src = <<>>
    /\ todo \in WhileCallProgs
    /\ free = FALSE
    /\ hist = NewHist
    /\ hw = NewHw
    /\ function_lib = {}
    /\ intrinsic_functions = {}
    /\ intrinsic_methods = NewMethods
    /\ threads = <<>>

NextWhileCall ==
    \/ visit_Call
    \/ visit_Call_end
    \/ visit_Assign
    \/ visit_If
    \/ visit_If_end
    \/ visit_Continue
    \/ visit_Return
    \/ visit_While_call
    \/ visit_While_test
    \/ visit_While_end
    \/ Start
    \/ Clock

SpecWhileCall == InitWhileCall /\ [][NextWhileCall]_vars


\* ============================================================ properties

\* ---------------------------------------------------------------------
\* C1: after a completed lowering (create, or extend on the same FSM) every
\* recorded transition leaves a state below fsm.current, and its dst and,
\* when present, its else_dst are at most fsm.current: no transition uses a
\* state number that inc() never allocated.
C1_TransitionsAllocated ==
    phase = "done" =>
        \A t \in Range(fsm.trans) :
            /\ 0 <= t.src /\ t.src < fsm.current
            /\ 0 <= t.dst /\ t.dst <= fsm.current
            /\ t.else_dst # NoState =>
                   0 <= t.else_dst /\ t.else_dst <= fsm.current

\* a completed lowering with a conditional transition whose else target is
\* the last state and a patched jump into the last state, on an FSM that
\* run has made
C1_Witness ==
    /\ phase = "done"
    /\ \E t \in Range(fsm.trans) : t.cond.kind = "Eq"
    /\ \E t \in Range(fsm.trans) : t.cond # None /\ t.else_dst = fsm.current
    /\ \E p \in Range(hist.patches) : p.dst = fsm.current

\* the patches made to the state that jump j registered
PatchesOf(j) ==
    {i \in DOMAIN hist.patches : /\ hist.patches[i].kind = j.kind
                                 /\ hist.patches[i].state = j.state}

IsClosed(id) == \E b \in Range(hist.blocks) : b.id = id
IsOpenNow(id) == \E a \in Range(ctl) : a.id = id
BlockOf(id) == CHOOSE b \in Range(hist.blocks) : b.id = id

\* the states of `kinds' still unresolved in some frame belong to jumps
\* whose owner has not closed yet
NoneLeftBehind(kinds) ==
    \A f \in Range(scope.frames) : \A k \in kinds : \A st \in Range(f[k]) :
        \E j \in Range(hist.jumps) :
            j.kind = k /\ j.state = st /\ IsOpenNow(j.owner)

\* ---------------------------------------------------------------------
\* C2: every break / continue state registered in a loop body is patched
\* exactly once, by the innermost enclosing loop when it closes and by no
\* other construct, and no break / continue stays unresolved once its loop
\* has closed.
C2_PatchedOnceByOwnLoop ==
    /\ \A j \in Range(hist.jumps) : j.kind \in {"brk", "cont"} =>
           /\ \A i \in PatchesOf(j) : hist.patches[i].by = j.owner
           /\ IsClosed(j.owner) => Cardinality(PatchesOf(j)) = 1
    /\ NoneLeftBehind({"brk", "cont"})
\* the transitions recorded from state st
TransFrom(st) == {i \in DOMAIN fsm.trans : fsm.trans[i].src = st}

\* state st is still registered as an unresolved jump of kind k
Pending(k, st) == \E f \in Range(scope.frames) : st \in Range(f[k])

\* ---------------------------------------------------------------------
\* C3: every return state registered in the body of an inlined call is
\* patched exactly once, by that call, to the state that follows its body;
\* while that call is open (also across nested calls that open and close)
\* the return is neither patched nor dropped; after the call frame is popped
\* no return of the call is unresolved.
C3_ReturnsPatchedByOwnCall ==
    /\ \A j \in Range(hist.jumps) : j.kind = "ret" =>
           /\ \A i \in PatchesOf(j) :
                  /\ hist.patches[i].by = j.owner
                  /\ hist.patches[i].dst = BlockOf(j.owner).e
           /\ IsClosed(j.owner) =>
                  /\ Cardinality(PatchesOf(j)) = 1
                  /\ Cardinality(TransFrom(j.state)) = 1
                  /\ \A i \in TransFrom(j.state) :
                         /\ fsm.trans[i].dst = BlockOf(j.owner).e
                         /\ fsm.trans[i].cond = None
           /\ IsOpenNow(j.owner) =>
                  /\ PatchesOf(j) = {}
                  /\ TransFrom(j.state) = {}
                  /\ Pending("ret", j.state)
    /\ NoneLeftBehind({"ret"})

\* a caller returns, inlines a call that itself returns, and returns again
C3_Witness ==
    /\ phase = "done"
    /\ \E j1, j2, j3 \in Range(hist.jumps) : \E g \in Range(hist.blocks) :
           /\ j1.kind = "ret" /\ j2.kind = "ret" /\ j3.kind = "ret"
           /\ j1.owner = j2.owner /\ g.kind = "call" /\ g.id # j1.owner
           /\ j3.owner = g.id
           /\ j1.state < g.s /\ g.e <= j2.state
           /\ BlockOf(j1.owner).e > g.e
\* the run so far: the state and the register values before clock edge i,
\* and after the last edge
StateAt(i) == IF i <= Len(hw.trace) THEN hw.trace[i].state ELSE hw.state
ValAt(i)   == IF i <= Len(hw.trace) THEN hw.trace[i].val ELSE hw.val
Edges      == DOMAIN hw.trace
Lowered    == phase \in {"done", "run"}

\* the register declared for source name n, and the states that bind a
\* register to `value'
RegOf(n) == CHOOSE r \in Range(regs) : r.base = n
StatesBinding(r, value) ==
    {b.state : b \in {c \in Range(fsm.stmts) : c.var = r /\ c.value = value}}

TheBlock(kind) == CHOOSE b \in Range(hist.blocks) : b.kind = kind

\* ---------------------------------------------------------------------
\* C4: in  y = 0 ; while c: (if d: break) ; y = y + 1  the assignment after
\* the if-block is lowered (one state binds y to y + 1); an iteration in
\* which d is true goes if-state, break state, while exit and leaves y as
\* it is; an iteration in which d is false goes if-state, the state that
\* binds y, body end, and back to the test, adding one to y; the binding
\* state is entered from nowhere else.
C4_BreakSkipsRestOfIteration ==
    (Program = BreakInWhile /\ Lowered) =>
        LET w    == TheBlock("while")
            brk  == hist.jumps[1].state
            y    == RegOf("y")
            ys   == StatesBinding(y, Plus(y, 1))
            yi   == RegIndex(y)
        IN /\ Cardinality(ys) = 1
           /\ Len(hist.jumps) = 1
           /\ \A i \in Edges : \A yst \in ys :
                 LET st == hw.trace[i].state
                     d  == hw.trace[i].in["d"]
                 IN /\ (st = w.s + 1 /\ d = 1) => StateAt(i + 1) = brk
                    /\ st = brk =>
                          /\ StateAt(i + 1) = w.e
                          /\ ValAt(i + 1)[yi] = ValAt(i)[yi]
                    /\ (st = w.s + 1 /\ d = 0) => StateAt(i + 1) = yst
                    /\ st = yst =>
                          /\ i > 1 /\ hw.trace[i - 1].state = w.s + 1
                          /\ hw.trace[i - 1].in["d"] = 0
                          /\ StateAt(i + 1) = w.e - 1
                          /\ ValAt(i + 1)[yi] = ValAt(i)[yi] + 1
                    /\ st = w.e - 1 => StateAt(i + 1) = w.s

\* a run with an iteration that binds y, then an iteration that breaks and
\* arrives at the exit with y = 1
C4_Witness ==
    /\ Program = BreakInWhile /\ phase = "run"
    /\ \E i, k \in Edges :
          /\ i < k
          /\ hw.trace[i].state \in StatesBinding(RegOf("y"), Plus(RegOf("y"), 1))
          /\ hw.trace[k].state = hist.jumps[1].state
    /\ hw.state = TheBlock("while").e
    /\ hw.val[RegIndex(RegOf("y"))] = 1
\* the state the FSM is in after one clock edge in state st
StepFrom(st, val, in) == NextState(fsm.trans, st, st, val, in)

\* register values for a step: every register holds v
AllRegs(v) == [i \in DOMAIN regs |-> v]

\* ---------------------------------------------------------------------
\* C5: an if statement lowered from state s takes exactly one branch: one
\* clock edge in s leads to t = s + 1 when the test holds and otherwise to
\* the first else state f = m + 1, or to m when there is no else; with an
\* else, the state m after the true body leads unconditionally to the state
\* e after the else body, where both branches join.  No other transition
\* leaves s or m.
C5_IfTakesOneBranch ==
    \A b \in Range(hist.blocks) : b.kind \in {"if", "else"} =>
        LET f == IF b.kind = "else" THEN b.m + 1 ELSE b.e IN
        /\ b.s + 1 <= f /\ f <= b.e
        /\ Cardinality(TransFrom(b.s)) = 1
        /\ b.kind = "else" => Cardinality(TransFrom(b.m)) = 1
        /\ \A in \in Signals : \A v \in {0, 1} :
              /\ StepFrom(b.s, AllRegs(v), in) =
                    IF Eval(b.test, AllRegs(v), in) # 0 THEN b.s + 1 ELSE f
              /\ b.kind = "else" => StepFrom(b.m, AllRegs(v), in) = b.e

\* a completed lowering with an if / else whose two bodies each hold a state
C5_Witness ==
    /\ phase = "done"
    /\ \E b \in Range(hist.blocks) :
          /\ b.kind = "else"
          /\ b.s + 1 < b.m /\ b.m + 1 < b.e
          /\ \E in \in Signals : Eval(b.test, AllRegs(0), in) # 0
          /\ \E in \in Signals : Eval(b.test, AllRegs(0), in) = 0
\* the jumps of kind k that belong to construct id
JumpsOf(k, id) == {j \in Range(hist.jumps) : j.kind = k /\ j.owner = id}

\* ---------------------------------------------------------------------
\* C6: a while loop lowered from state begin goes from begin to begin + 1
\* when the test holds and to exit otherwise; body_end = exit - 1 goes back
\* to begin; every break state of the loop goes to exit and every continue
\* state of the loop goes to begin.
C6_WhileShape ==
    \A b \in Range(hist.blocks) : b.kind = "while" =>
        \A in \in Signals : \A v \in {0, 1} :
            /\ StepFrom(b.s, AllRegs(v), in) =
                  IF Eval(b.test, AllRegs(v), in) # 0 THEN b.s + 1 ELSE b.e
            /\ StepFrom(b.e - 1, AllRegs(v), in) = b.s
            /\ \A j \in JumpsOf("brk", b.id) :
                  StepFrom(j.state, AllRegs(v), in) = b.e
            /\ \A j \in JumpsOf("cont", b.id) :
                  StepFrom(j.state, AllRegs(v), in) = b.s
\* the transition and the statement records
Tr(s, dst, cond, else_dst) ==
    [src |-> s, dst |-> dst, cond |-> cond, else_dst |-> else_dst]
St(state, var, value) == [state |-> state, var |-> var, value |-> value]

\* ---------------------------------------------------------------------
\* C7: for i in range(10): x = x + 1, lowered from state s, uses the states
\* s .. s + 4 and leaves fsm.current = s + 4; it declares one register, i;
\* state s binds i to 0 and goes to the check state s + 1, which goes to the
\* body state s + 2 when i < 10 and to the exit state s + 4 otherwise; the
\* body state binds x to x + 1; the step state s + 3 binds i to i + 1 and
\* goes back to s + 1.  The loop records nothing else.
C7_CountingLoop ==
    (Program \in {Counting, ForProg(<<10>>)} /\ Lowered) =>
        LET b == TheBlock("for")
            s == b.s
            i == RegOf("i")
            x == RegOf("x")
            ii == RegIndex(i)
        IN /\ b.e = s + 4 /\ fsm.current = s + 4
           /\ b.r1 = b.r0 + 1 /\ regs[b.r1] = i
           /\ Cardinality({k \in DOMAIN regs : regs[k].base = "i"}) = 1
           /\ {fsm.trans[k] : k \in {n \in DOMAIN fsm.trans :
                                       fsm.trans[n].src >= s}}
                = {Tr(s, s + 1, None, NoState),
                   Tr(s + 1, s + 2, LessThan(i, 10), s + 4),
                   Tr(s + 2, s + 3, None, NoState),
                   Tr(s + 3, s + 1, None, NoState)}
           /\ Cardinality({n \in DOMAIN fsm.trans : fsm.trans[n].src >= s}) = 4
           /\ {fsm.stmts[k] : k \in {n \in DOMAIN fsm.stmts :
                                       fsm.stmts[n].state >= s}}
                = {St(s, i, vInt(0)), St(s + 2, x, Plus(x, 1)),
                   St(s + 3, i, Plus(i, 1))}
           /\ \A v \in {0, 9, 10, 11} : \A in \in Signals :
                 StepFrom(s + 1, AllRegs(v), in) =
                     IF v < 10 THEN s + 2 ELSE s + 4
           /\ \A e \in Edges :
                 hw.trace[e].state = s + 3 =>
                     /\ StateAt(e + 1) = s + 1
                     /\ ValAt(e + 1)[ii] = ValAt(e)[ii] + 1

\* the counting loop, lowered from state 3, has run three iterations
C7_Witness ==
    /\ Program = Counting /\ phase = "run"
    /\ TheBlock("for").s = 3
    /\ hw.state = 4
    /\ hw.val[RegIndex(RegOf("i"))] = 3
    /\ hw.val[RegIndex(RegOf("x"))] = 3
RECURSIVE PyRangeFrom(_, _, _)
\* Python's range: from v in steps of step while the end is not reached
PyRangeFrom(v, end, step) ==
    IF (step > 0 /\ v < end) \/ (step < 0 /\ v > end)
    THEN <<v>> \o PyRangeFrom(v + step, end, step)
    ELSE <<>>

PyRange(r) == PyRangeFrom(RangeBegin(r), RangeEnd(r), RangeStep(r))

\* the run has arrived in a state that no transition leaves
Halted == phase = "run" /\ ~Leaves(hw.state)

\* the values register r held at the clock edges in state st, in order
ValuesIn(st, r) ==
    LET visits == SelectSeq(hw.trace, LAMBDA t : t.state = st)
    IN [k \in DOMAIN visits |-> visits[k].val[RegIndex(r)]]

\* ---------------------------------------------------------------------
\* C8: the FSM of  x = 0 ; for i in range(r): x = x + 1  with 1, 2 or 3
\* integer arguments executes the body once for each element of Python's
\* range(r), in order, with i holding that element, and then leaves the
\* loop: at the exit x is the length of range(r).
C8_PythonRange ==
    \A r \in Ranges :
        (Program = ForProg(r) /\ Halted) =>
            LET b == TheBlock("for") IN
            /\ ValuesIn(b.s + 2, RegOf("i")) = PyRange(r)
            /\ hw.val[RegIndex(RegOf("x"))] = Len(PyRange(r))
            /\ hw.state = b.e

\* ---------------------------------------------------------------------
\* C9: in a for-range loop every continue state of the loop goes to the
\* step state body_end = exit - 1 and every break state of the loop goes to
\* the exit state; the step state adds the step to the iteration register
\* and goes to the check state.
C9_ForJumps ==
    \A b \in Range(hist.blocks) : b.kind = "for" =>
        \A in \in Signals : \A v \in {0, 1} :
            /\ \A j \in JumpsOf("cont", b.id) :
                  StepFrom(j.state, AllRegs(v), in) = b.e - 1
            /\ \A j \in JumpsOf("brk", b.id) :
                  StepFrom(j.state, AllRegs(v), in) = b.e
            /\ StepFrom(b.e - 1, AllRegs(v), in) = b.s + 1
            /\ \E c \in Range(fsm.stmts) :
                  /\ c.state = b.e - 1 /\ c.var = b.iter.reg
                  /\ c.value.kind = "Plus" /\ c.value.reg = c.var
RECURSIVE RunFrom(_, _, _, _)
\* the state and the register values after at most n clock edges from
\* state st, the signals held at `in'
RunFrom(st, val, in, n) ==
    IF n = 0 \/ ~Leaves(st) THEN [state |-> st, val |-> val]
    ELSE RunFrom(NextState(fsm.trans, st, st, val, in),
                 NextValues(fsm.stmts, st, val, val, in), in, n - 1)

Low == [n \in LocalObjects |-> 0]

\* the registers that the returns with a value of call id store into
ReturnRegs(id) == {j.var : j \in {k \in JumpsOf("ret", id) : k.var # NoReg}}
Returning == {j.owner : j \in {k \in Range(hist.jumps) : ReturnRegs(k.owner) # {}}}
TmpRegs == {k \in DOMAIN regs : k > hist.base /\ regs[k].base = "tmp"}

\* the returns with a value of one call store into one temporary register,
\* which no other call uses and which is the result of the call; a call
\* without such a return yields Int(0); a completed lowering has declared
\* one temporary per call that returns a value.  For
\* def f(a): if a: return 1 ; return 2  there is one return register and
\* there are two return patches, both to the state after the body of f.
OneReturnRegister ==
    phase # "error" =>
    /\ \A j \in Range(hist.jumps) : (j.kind = "ret" /\ j.var # NoReg) =>
          /\ ReturnRegs(j.owner) = {j.var}
          /\ j.var.base = "tmp"
          /\ \E c \in Range(fsm.stmts) : c.state = j.state /\ c.var = j.var
          /\ \A k \in Range(hist.jumps) :
                (k.kind = "ret" /\ k.var = j.var) => k.owner = j.owner
    /\ \A b \in Range(hist.blocks) : b.kind = "call" =>
          b.result = IF ReturnRegs(b.id) = {} THEN vInt(0)
                     ELSE Var(CHOOSE r \in ReturnRegs(b.id) : TRUE)
    /\ phase = "done" => Cardinality(TmpRegs) = Cardinality(Returning)
    /\ (phase = "done" /\ src = EarlyReturn) =>
          /\ Cardinality(TmpRegs) = 1
          /\ Cardinality({i \in DOMAIN hist.patches :
                             hist.patches[i].kind = "ret"}) = 2
          /\ Cardinality({i \in DOMAIN hist.patches :
                 /\ hist.patches[i].by = 2
                 /\ hist.patches[i].dst = BlockOf(2).e}) = 2
          /\ BlockOf(2).result = Var(regs[CHOOSE k \in TmpRegs : TRUE])

\* ---------------------------------------------------------------------
\* C10, as amended: one return register per call, as stated above; and for
\* def g(x): return x + 1, def f(): return g(3)  the inlined f() yields the
\* return register of f, a second temporary, which the return state of f
\* binds to the return register of g; that one is bound to x + 1 with x
\* bound to 3, so that both registers hold 4 once the FSM has run.
C10_ReturnRegisterPerCall ==
    /\ OneReturnRegister
    /\ (phase = "done" /\ src = NestedCall) =>
          LET f == BlockOf(2)
              g == BlockOf(3)
              x == RegOf("x")
              end == RunFrom(0, AllRegs(0), Low, MaxCycles)
          IN /\ f.result.kind = "Var" /\ g.result.kind = "Var"
             /\ f.result # g.result
             /\ St(g.s, x, vInt(3)) \in Range(fsm.stmts)
             /\ St(g.s + 1, g.result.reg, Plus(x, 1)) \in Range(fsm.stmts)
             /\ St(g.e, f.result.reg, g.result) \in Range(fsm.stmts)
             /\ end.state = fsm.current
             /\ end.val[RegIndex(f.result.reg)] = 4
             /\ end.val[RegIndex(g.result.reg)] = 4

\* the nested call is lowered and its FSM runs to the end with 4 in the
\* result of f()
C10_Witness ==
    /\ phase = "done" /\ src = NestedCall
    /\ Cardinality(TmpRegs) = 2
    /\ LET end == RunFrom(0, AllRegs(0), Low, MaxCycles)
       IN end.val[RegIndex(BlockOf(2).result.reg)] = 4

\* C10, as stated: ... the inlined f() yields IR equal to the return
\* register of g.
C10_ResultIsCalleeRegister ==
    /\ OneReturnRegister
    /\ (phase = "done" /\ src = NestedCall) =>
          BlockOf(2).result = BlockOf(3).result

\* ---------------------------------------------------------------------
\* the argument the call of sig supplies for its parameter i: the positional
\* argument at its position, else the keyword argument of its name, else
\* its default
Supplied(sig, i) ==
    IF ByPosition(sig, i) THEN sig.args[i]
    ELSE IF ByKeyword(sig, i)
    THEN sig.keywords[CHOOSE j \in DOMAIN sig.keywords :
                         sig.keywords[j].arg = sig.params[i]].value
    ELSE sig.defaults[i - (Len(sig.params) - Len(sig.defaults))]

\* the statements of the state of call b that bind a register of name n
BindsIn(b, n) == {k \in DOMAIN fsm.stmts : /\ fsm.stmts[k].state = b.s
                                          /\ fsm.stmts[k].var.base = n}

CallBlocks == {b \in Range(hist.blocks) : b.kind = "call"}

\* the registers declared while call b was lowered
DeclaredIn(b) == {regs[k] : k \in (b.r0 + 1)..b.r1}

\* C11: when a call that Python accepts is inlined, each parameter of the
\* callee is bound by exactly one statement of the call's state, to a
\* register declared for this call, and the value bound is the positional
\* argument at the parameter's position, else the keyword argument of its
\* name, else its default; so a default is bound exactly when the call
\* supplies no argument, whether or not the caller has a variable of the
\* parameter's name.  When the thread has run to its end, y = f(..) with
\* def f(a, b): return b + 1  has left that value of b plus one in y.
C11_ParametersBoundOnce ==
    \A b \in CallBlocks :
        LET sig == Program[b.id].sig IN
        ValidCall(sig) =>
            /\ \A i \in DOMAIN sig.params :
                  LET binds == BindsIn(b, sig.params[i]) IN
                  /\ Cardinality(binds) = 1
                  /\ \A k \in binds :
                        /\ fsm.stmts[k].var \in DeclaredIn(b)
                        /\ Supplied(sig, i).e = "Num" =>
                              fsm.stmts[k].value = vInt(Supplied(sig, i).n)
            /\ (Program \in ArgProgs /\ Halted /\ sig # NoSig) =>
                  hw.val[RegIndex(RegOf("y"))] = Supplied(sig, 2).n + 1

\* a call with one positional argument whose caller has a variable b, and
\* whose callee takes its default for b, has been inlined and has run
C11_Witness ==
    /\ Halted
    /\ Program \in ArgProgs
    /\ Program[1 + 1].x = "b"
    /\ \E b \in CallBlocks :
          LET sig == Program[b.id].sig IN
          /\ Len(sig.args) = 1 /\ sig.keywords = <<>>
          /\ Len(sig.defaults) = 1
          /\ BindsIn(b, "b") # {}

\* ---------------------------------------------------------------------
\* the states allocated while call b was lowered, the registers that the
\* statements of these states write, and two calls of which neither is
\* inside the other
StatesOf(b) == b.s..(b.e - 1)
WrittenIn(b) == {st.var : st \in {t \in Range(fsm.stmts) :
                                    t.state \in StatesOf(b) /\ t.var # NoReg}}
Apart(b1, b2) == b1.e <= b2.s \/ b2.e <= b1.s

\* C12: every statement lowered inside an inlined call writes a register
\* declared during that inlining, so a store to a name inside the callee
\* never writes the register that the name denotes in the caller; two
\* inlinings at distinct call sites write no register in common, be it a
\* parameter, a local or a return register; and no register is declared
\* twice.  After  pre = 0 ; y = f(1) ; y = f(2)  with
\* def f(x): z = x + 1 ; return z  has run, the caller's variable, named
\* x, z or i, still holds 0 and y holds 3.
C12_FreshRegistersPerInlining ==
    /\ \A b \in CallBlocks : WrittenIn(b) \subseteq DeclaredIn(b)
    /\ \A b1, b2 \in CallBlocks :
          Apart(b1, b2) => WrittenIn(b1) \cap WrittenIn(b2) = {}
    /\ \A i, j \in DOMAIN regs : regs[i] = regs[j] => i = j
    /\ (Program \in TwoCallsProgs /\ Halted) =>
          /\ hw.val[1] = 0
          /\ hw.val[RegIndex(RegOf("y"))] = 3

\* the caller has a variable x and f has been inlined twice, each inlining
\* with its own registers for x, z and the returned value, and has run
C12_Witness ==
    /\ Halted
    /\ Program = TwoCalls("x")
    /\ \E b1, b2 \in CallBlocks :
          /\ Apart(b1, b2)
          /\ \A b \in {b1, b2} :
                /\ {r.base : r \in WrittenIn(b)} = {"x", "z", "tmp"}
                /\ regs[1] \notin WrittenIn(b)

\* ---------------------------------------------------------------------
\* the calls inlined inside call b, and the registers declared by the body
\* of the function of call b itself
Inner(b) == {b2 \in CallBlocks : b2.id # b.id /\ b.s <= b2.s /\ b2.e <= b.e}
OwnRegs(b) ==
    {k \in (b.r0 + 1)..b.r1 :
        \A b2 \in Inner(b) : k \notin (b2.r0 + 1)..b2.r1}

\* C13: within the body of one inlined function a source name has one
\* register: the first store declares it and no later store of the name,
\* inside a block or after it closed, declares another one.
C13_OneRegisterPerName ==
    \A b \in CallBlocks : \A i, j \in OwnRegs(b) :
        (regs[i].base = regs[j].base /\ regs[i].sub = regs[j].sub) => i = j

\* ---------------------------------------------------------------------
\* C14: a load of a name before its first store raises name-not-defined
\* and lowers nothing, so a register that a lowered statement reads has
\* been stored by a statement lowered before it.
C14_LoadBeforeStoreRaises ==
    \A k \in DOMAIN fsm.stmts :
        LET r == fsm.stmts[k].value.reg IN
        (fsm.stmts[k].value.kind \in {"Var", "Plus"} /\ ~IsExt(r)) =>
            \E j \in 1..(k - 1) : fsm.stmts[j].var = r

\* ---------------------------------------------------------------------
\* the positions of the calls by name or of a method that were lowered, the
\* invocations made for the call at position p, the end of the statement
\* at p, and the intrinsic that a call names
CallsAt == {p \in DOMAIN src : src[p].t = "call" /\ src[p].f # ""}
InvokedAt(p) == {i \in DOMAIN hist.calls : hist.calls[i].at = p}
EndOf(p) == StmtLen(Program, p, 0)
Inlined(p) == IsOpenNow(p) \/ IsClosed(p)
IsPrefix(a, b) == Len(a) <= Len(b) /\ a = SubSeq(b, 1, Len(a))
Named(tok) ==
    IF tok.o = "" THEN FuncId(tok.f)
    ELSE Method(IF tok.o = "thgen" THEN "ThreadGenerator" ELSE "ThreadInfo",
                IF tok.o = "thgen" THEN 0 ELSE 1, tok.f)
IsIntrinsic(tok) ==
    IF tok.o = "" THEN tok.f \notin {"print", "int"}
                       /\ tok.f \in Names(intrinsic_functions)
    ELSE Named(tok) \in intrinsic_methods

\* C15: a lowered call of a registered intrinsic, a function called by name
\* that is neither print nor int, or a registered method, is not inlined:
\* the intrinsic is invoked exactly once, with the FSM of the thread as it
\* is at the call and the lowered arguments; when the call is a statement
\* of its own, the FSM after it is the FSM the intrinsic left and no frame
\* was pushed; when it is assigned, its return value is what is bound or
\* assigned.  A call of print or int invokes no intrinsic even when an
\* intrinsic of that name is registered, and a call of any other name that
\* is not registered is inlined.
C15_IntrinsicNotInlined ==
    \A p \in CallsAt :
        LET tok == src[p]
            calls == InvokedAt(p)
        IN IF ~IsIntrinsic(tok)
           THEN /\ calls = {}
                /\ (tok.o = "" /\ tok.f \notin {"print", "int"}) => Inlined(p)
                /\ tok.f \in {"print", "int"} => ~Inlined(p)
           ELSE /\ ~Inlined(p)
                /\ Cardinality(calls) = 1
                /\ \A i \in calls :
                     LET c == hist.calls[i] IN
                     /\ c.func = Named(tok)
                     /\ c.args = [j \in DOMAIN tok.sig.args |->
                                    IF tok.sig.args[j].e = "Num"
                                    THEN vInt(tok.sig.args[j].n)
                                    ELSE FunctionObj(tok.sig.args[j].n)]
                     /\ IsPrefix(c.fsm.trans, fsm.trans)
                     /\ IsPrefix(c.fsm.stmts, fsm.stmts)
                     /\ IsPrefix(c.fsm.trans, c.after.trans)
                     /\ (Len(src) = EndOf(p) /\ phase = "lower") =>
                           /\ Len(scope.frames) = c.frames
                           /\ tok.k = "expr" => fsm = c.after
                           /\ (tok.k = "assign" /\ tok.o = "") =>
                                 /\ fsm.current = c.after.current + 1
                                 /\ fsm.stmts = Append(c.after.stmts,
                                       [state |-> c.after.current,
                                        var |-> RegOf(tok.x),
                                        value |-> vInt(0)])

\* the intrinsic function stall, which is also a function that could be
\* inlined, was called as a statement of its own and allocated a state
C15_Witness ==
    /\ \E p \in CallsAt :
          /\ src[p].f = "stall" /\ src[p].k = "expr"
          /\ \E i \in InvokedAt(p) :
                hist.calls[i].after.current = hist.calls[i].fsm.current + 1
    /\ Halted

\* ---------------------------------------------------------------------
\* the clock ticks for ever: an execution of the circuit goes on while a
\* state can be left
SpecProgFair == InitProg /\ [][NextProg]_vars /\ WF_vars(Clock)

\* the invocations of the method attr, the state of the FSMs after the i-th
\* clock edge, and the edges taken in state s of the thread
CallsOf(attr) == {i \in DOMAIN hist.calls : hist.calls[i].func.attr = attr}
AfterEdge(i) == IF i = Len(hw.trace) THEN [state |-> hw.state,
                                           child |-> hw.child]
                ELSE [state |-> hw.trace[i + 1].state,
                      child |-> hw.trace[i + 1].child]
EdgesIn(s) == {i \in DOMAIN hw.trace : hw.trace[i].state = s}
LeavingFrom(s) == {i \in DOMAIN fsm.trans : fsm.trans[i].src = s}
BindsZ == {k \in DOMAIN fsm.stmts : /\ fsm.stmts[k].var.base = "z"
                                     /\ fsm.stmts[k].value = vInt(1)}

\* what a wait leaves in the FSM of the thread and what the circuit does
\* with it
WaitShape ==
    \A c \in CallsOf("wait") :
        LET w == hist.calls[c].fsm.current
            k == hist.calls[c].func.obj
            end == threads[k].end_state
        IN /\ \A t \in LeavingFrom(w) :
                 fsm.trans[t] = [src |-> w, dst |-> w + 1,
                                 cond |-> Equals(StateReg(k), end),
                                 else_dst |-> NoState]
           /\ Cardinality(LeavingFrom(w)) = 1
           /\ \A z \in BindsZ : fsm.stmts[z].state > w
           /\ phase = "run" =>
                 /\ \A i \in EdgesIn(w) :
                       AfterEdge(i).state =
                           IF hw.trace[i].child[k] = end THEN w + 1 ELSE w
                 /\ \A z \in BindsZ : \A i \in EdgesIn(fsm.stmts[z].state) :
                       \E j \in 1..(i - 1) : hw.trace[j].child[k] = end

ChildAtEnd ==
    /\ phase = "run"
    /\ BindsZ # {}
    /\ \E c \in CallsOf("wait") :
          hw.child[hist.calls[c].func.obj] =
              threads[hist.calls[c].func.obj].end_state
ExecutedZ ==
    /\ phase = "run"
    /\ \E z \in BindsZ : EdgesIn(fsm.stmts[z].state) # {}

\* C16: in  th = thgen.run(worker) ; th.wait() ; z = 1  the state that was
\* current at the wait has one outgoing transition, to the next state and
\* guarded by child.state == end_state; on every clock edge in that state
\* the thread stays when the child is not at end_state and advances when it
\* is; the state that binds z = 1 has a higher number, no edge is taken in
\* it before an edge at which the child is at end_state, and once the child
\* is at end_state the thread eventually executes z = 1.
C16_WaitStallsUntilEnd == [] WaitShape /\ (ChildAtEnd ~> ExecutedZ)

\* the thread stayed in the wait state for two edges and then executed
\* z = 1
C16_Witness ==
    /\ ExecutedZ
    /\ \E c \in CallsOf("wait") :
          \E i \in EdgesIn(hist.calls[c].fsm.current) :
              /\ i + 1 \in EdgesIn(hist.calls[c].fsm.current)
              /\ hw.trace[i].child[hist.calls[c].func.obj] #
                     threads[hist.calls[c].func.obj].end_state

\* ---------------------------------------------------------------------
\* the value of th.busy() for the k-th child at the i-th clock edge, and
\* the statements that bind the value of a busy
BusyAt(k, i) ==
    Eval(busy(k), hw.trace[i].val, hw.trace[i].in @@ FsmStates(hw.trace[i]))
BindsBusy(k) ==
    {j \in DOMAIN fsm.stmts :
        fsm.stmts[j].value =
            NotEquals(StateReg(k), threads[k].thread_fsm.current)}

\* C17: th.busy() is the expression child.state != end_state with
\* end_state the state counter of the child FSM when its lowering ended:
\* every lowered busy binds that expression; the expression is true at a
\* clock edge exactly when the child is not at end_state, which covers the
\* edges before the child starts and while it runs; end_state has no
\* outgoing transition, so after an edge at which busy is false it is
\* false at every later edge.
C17_BusyUntilEndState ==
    /\ \A c \in CallsOf("busy") :
          LET k == hist.calls[c].func.obj
              s == hist.calls[c].fsm.current
          IN \E j \in BindsBusy(k) : fsm.stmts[j].state = s
    /\ \A k \in DOMAIN threads :
          /\ threads[k].end_state = threads[k].thread_fsm.current
          /\ ~ChildLeaves(k, threads[k].end_state)
          /\ threads[k].end_state > 0
          /\ phase = "run" =>
                \A i \in DOMAIN hw.trace :
                    /\ BusyAt(k, i) =
                          IF hw.trace[i].child[k] = threads[k].end_state
                          THEN 0 ELSE 1
                    /\ hw.trace[i].child[k] \in {0, 1} => BusyAt(k, i) = 1
                    /\ BusyAt(k, i) = 0 =>
                          /\ hw.child[k] = threads[k].end_state
                          /\ \A j \in i..Len(hw.trace) : BusyAt(k, j) = 0

\* busy was true at an edge before the child started; the first
\* b = th.busy() made b true while the child ran, the child ended, and the
\* second b = th.busy() made b false
C17_Witness ==
    /\ Halted
    /\ Cardinality(CallsOf("busy")) = 2
    /\ hw.val[CHOOSE r \in DOMAIN regs : regs[r].base = "b"] = 0
    /\ \E i \in DOMAIN hw.trace :
          hw.trace[i].child[1] = 0 /\ BusyAt(1, i) = 1
    /\ \E i \in DOMAIN hw.trace :
          /\ hw.trace[i].child[1] \notin {0, threads[1].end_state}
          /\ hw.trace[i].val[CHOOSE r \in DOMAIN regs : regs[r].base = "b"] = 1
    /\ threads[1].end_state > 2

\* ---------------------------------------------------------------------
\* the thread that the run invoked as the c-th call made
ThreadOf(c) == Cardinality({d \in CallsOf("run") : d <= c})
LeavingChild(k, s) ==
    {i \in DOMAIN threads[k].thread_fsm.trans :
        threads[k].thread_fsm.trans[i].src = s}

\* C18: the FSM of a child made by run has one transition from its initial
\* state 0, to state 1 and guarded by parent.state == s with s the state
\* current in the parent at the run, and the statements of target are in
\* states from 1 on; at every clock edge with the child in state 0 the
\* child stays in 0 unless the parent is in s, and is in state 1 after an
\* edge with the parent in s; the run itself leaves the FSM of the parent
\* as it was: same state counter, same transitions, same statements.
C18_ChildStartsAtRunState ==
    \A c \in CallsOf("run") :
        LET k == ThreadOf(c)
            s == hist.calls[c].fsm.current
            child == threads[k].thread_fsm
        IN /\ k \in DOMAIN threads
           /\ hist.calls[c].after = hist.calls[c].fsm
           /\ IsPrefix(hist.calls[c].fsm.trans, fsm.trans)
           /\ Cardinality(LeavingChild(k, 0)) = 1
           /\ child.trans[1] = [src |-> 0, dst |-> 1,
                                 cond |-> Equals(StateReg(0), s),
                                 else_dst |-> NoState]
           /\ \A j \in DOMAIN child.stmts : child.stmts[j].state >= 1
           /\ phase = "run" =>
                 \A i \in DOMAIN hw.trace :
                     hw.trace[i].child[k] = 0 =>
                         AfterEdge(i).child[k] =
                             IF hw.trace[i].state = s THEN 1 ELSE 0

\* run was lowered in state 2 of the thread: the child stayed in state 0
\* for two edges, started at the third, and executed its target while the
\* thread went on
C18_Witness ==
    /\ Halted
    /\ \E c \in CallsOf("run") :
          /\ hist.calls[c].fsm.current = 2
          /\ hist.calls[c].fsm.trans # <<>>
          /\ threads[ThreadOf(c)].thread_fsm.stmts # <<>>
          /\ Len(hw.trace) > 3
          /\ hw.trace[2].child[ThreadOf(c)] = 0
          /\ hw.trace[3].child[ThreadOf(c)] = 0
          /\ hw.trace[4].child[ThreadOf(c)] = 1
          /\ hw.child[ThreadOf(c)] = threads[ThreadOf(c)].end_state
    /\ \E r \in DOMAIN regs : regs[r].base = "x" /\ hw.val[r] = 3
    /\ \E r \in DOMAIN regs : regs[r].base = "w" /\ hw.val[r] > 0

\* ---------------------------------------------------------------------
RECURSIVE CeilLog2(_)
\* the least e with 2^e >= n
CeilLog2(n) == IF n <= 1 THEN 0 ELSE 1 + CeilLog2((n + 1) \div 2)

ValAfter(i) == IF i = Len(hw.trace) THEN hw.val ELSE hw.trace[i + 1].val
WidthAsCoded(n)   == bit_length(n) + 1
WidthAsWritten(n) == CeilLog2(n) + 1

\* sleep(fsm, cycles) with a counter of width(cycles) bits: the state
\* current at the call holds the one statement count <= count + 1 on a
\* temporary register of that width, and one transition, to the next
\* state, guarded by count == cycles; the width can hold cycles; the
\* counter is 0 at start, each clock edge in the state adds one to it
\* without wrapping as long as it is not above cycles, and the edge at
\* which it equals cycles, and no other, leaves the state
SleepCounts(width(_)) ==
    \A c \in CallsOf("sleep") :
        LET cycles == hist.calls[c].args[1].k
            s == hist.calls[c].fsm.current
            here == {j \in DOMAIN fsm.stmts : fsm.stmts[j].state = s}
        IN /\ cycles >= 1
           /\ Cardinality(here) = 1
           /\ \A j \in here :
                 LET count == fsm.stmts[j].var IN
                 /\ count.base = "_tmp"
                 /\ count \in Range(regs)
                 /\ count.width = width(cycles)
                 /\ cycles < 2 ^ count.width
                 /\ fsm.stmts[j].value = Plus(count, 1)
                 /\ Cardinality(LeavingFrom(s)) = 1
                 /\ \A t \in LeavingFrom(s) :
                       fsm.trans[t] = [src |-> s, dst |-> s + 1,
                                       cond |-> Equals(count, cycles),
                                       else_dst |-> NoState]
                 /\ phase = "run" =>
                       /\ \A i \in DOMAIN hw.trace :
                             hw.trace[i].state <= s =>
                                 hw.trace[i].val[RegIndex(count)] =
                                     Cardinality({e \in EdgesIn(s) : e < i})
                       /\ \A i \in EdgesIn(s) :
                             LET v == hw.trace[i].val[RegIndex(count)] IN
                             /\ v <= cycles
                             /\ ValAfter(i)[RegIndex(count)] = v + 1
                             /\ AfterEdge(i).state =
                                   IF v = cycles THEN s + 1 ELSE s

\* C19: for cycles from 1 to MaxSleep, sleep(fsm, cycles) allocates a
\* counter register of cycles.bit_length() + 1 bits with initial value 0,
\* increments it on every clock edge spent in the sleep state and leaves
\* the state at the edge at which the counter equals cycles; the width can
\* hold cycles, so the counter reaches cycles from 0 without wrapping.
C19_SleepCounterWidth == SleepCounts(WidthAsCoded)

\* C19 as written: the counter register is ceil(log2(cycles)) + 1 bits
\* wide.
C19_SleepCeilLog2Width == SleepCounts(WidthAsWritten)

\* thgen.sleep(4) ; z = 1 was executed: the counter, 4 bits wide where
\* ceil(log2(4)) + 1 is 3, went from 0 to 4 in the sleep state, the thread
\* left the state then and executed z = 1
C19_Witness ==
    /\ ExecutedZ
    /\ \E c \in CallsOf("sleep") :
          /\ hist.calls[c].args[1].k = 4
          /\ \A r \in DOMAIN regs : regs[r].base = "_tmp" => regs[r].width = 4
          /\ WidthAsWritten(4) = 3
          /\ Cardinality(EdgesIn(hist.calls[c].fsm.current)) = 5
          /\ \E i \in EdgesIn(hist.calls[c].fsm.current) :
                \E r \in DOMAIN regs :
                    regs[r].base = "_tmp" /\ hw.trace[i].val[r] = 4

\* ---------------------------------------------------------------------
\* a step that made a registration from outside a thread, and the
\* registration it made
Registers == hist'.reg.n # hist.reg.n
InRegistry(func) ==
    IF hist'.reg.op = "add_function" THEN func.attr \in Names(function_lib)
    ELSE IF isfunction(func) THEN func.attr \in Names(intrinsic_functions)
    ELSE func \in intrinsic_methods
RegistriesWith(func) ==
    IF hist'.reg.op = "add_function"
    THEN <<function_lib \cup {func}, intrinsic_functions, intrinsic_methods>>
    ELSE IF isfunction(func)
    THEN <<function_lib, intrinsic_functions \cup {func}, intrinsic_methods>>
    ELSE <<function_lib, intrinsic_functions, intrinsic_methods \cup {func}>>
DuplicateRaises ==
    LET func == hist'.reg.func IN
    (Registers /\ (isfunction(func) \/ ismethod(func))) =>
        IF InRegistry(func)
        THEN hist'.reg.raised = "ValueError" /\ lib' = lib
        ELSE hist'.reg.raised = "None" /\ lib' = RegistriesWith(func)
RunRegisters ==
    threads' # threads =>
        /\ ThreadMethods(Len(threads')) \cap intrinsic_methods = {}
        /\ lib' = <<function_lib, intrinsic_functions,
                    intrinsic_methods \cup ThreadMethods(Len(threads'))>>
        /\ phase' # "error"

\* C20: add_function with a function whose name is in the function
\* library, and intrinsic with a function whose name is in the registry of
\* intrinsic functions or a bound method whose identity is in the registry
\* of intrinsic methods, raise an error and leave the library and both
\* registries as they were; a registration under a new name raises
\* nothing and adds that one entry and no other.  This holds after any
\* registrations made before, those of run and sleep by the constructor
\* and of wait and busy by every run included, and every run registers the
\* wait and busy of its ThreadInfo as new entries.
C20_DuplicateRegistrationRaises == [][DuplicateRaises /\ RunRegisters]_vars

\* after a function was added and both children were lowered, the wait of
\* the second ThreadInfo was registered again and raised
C20_Witness ==
    /\ hist.reg.n = MaxRegs
    /\ hist.reg.raised = "ValueError"
    /\ hist.reg.func = Method("ThreadInfo", 2, "wait")
    /\ function_lib # {}
    /\ Len(threads) = 2
    /\ Cardinality(intrinsic_methods) = 6

\* ---------------------------------------------------------------------
\* the names generated since the last reset()
Generated == hist.names
NamesCounted ==
    /\ tmp_count = Len(Generated)
    /\ \A i \in DOMAIN Generated : Generated[i].v = i - 1
    /\ \A i, j \in DOMAIN Generated : Generated[i] = Generated[j] => i = j
CounterStep ==
    IF tmp_count' >= tmp_count
    THEN /\ Len(hist'.names) = Len(hist.names) + (tmp_count' - tmp_count)
         /\ IsPrefix(hist.names, hist'.names)
    ELSE tmp_count' = 0 /\ hist'.names = <<>>

\* C21: between two calls of reset() the counter behind the generated
\* names only goes up, by one for each generated name, so the k-th name
\* generated since the reset carries the number k - 1 and the names of
\* registers, temporaries and child threads generated in that interval,
\* in whichever thread or child thread, are distinct from one another;
\* reset() sets the counter to 0.
C21_NamesDistinctBetweenResets == [] NamesCounted /\ [][CounterStep]_vars

\* three threads were created without a reset(): names of registers, of
\* temporaries and of child threads were generated, more of them than one
\* thread generates
C21_Witness ==
    /\ phase = "done"
    /\ hist.created = MaxCreate
    /\ Len(Generated) >= 12
    /\ {Generated[i].prefix.kind : i \in DOMAIN Generated}
          = {"_thread", "tmp", "child"}
    /\ Len(threads) >= 2

\* ---------------------------------------------------------------------
\* C22: two independent lowerings of the same thread function with the same
\* arguments, both started from the same value of the name counter, emit the
\* same registers, the same bindings in the same states and the same
\* transitions (of the thread and of the threads it starts), whatever the
\* order in which the keyword arguments of the top-level call were passed.
SameRun ==
    /\ hist.first # <<>>
    /\ hist.first[1].body = Tail(Program)
    /\ hist.first[1].args = Program[1].sig.args
    /\ hist.first[1].kwargs = Range(Program[1].sig.keywords)
    /\ hist.first[1].cnt0 = hist.cnt0

C22_LoweringDeterministic ==
    (phase = "done" /\ SameRun) =>
        /\ fsm = hist.first[1].fsm
        /\ regs = hist.first[1].regs
        /\ threads = hist.first[1].threads
        /\ hw = hist.first[1].hw

\* the keyword arguments were passed in two different orders, and both
\* lowerings declared registers, bound them and recorded transitions
C22_Witness ==
    /\ phase = "done"
    /\ SameRun
    /\ Len(hist.passed) > 1
    /\ hist.passed # hist.first[1].passed
    /\ Len(regs) > 1
    /\ fsm.stmts # <<>>
    /\ fsm.trans # <<>>
    /\ fsm = hist.first[1].fsm
    /\ regs = hist.first[1].regs


\* ---------------------------------------------------------------------
\* C23: every frame pushed for the body of an if, a while, a for or an
\* inlined call is popped on every way out of the construct: the frames
\* around the current one are those of the constructs still open, also after
\* skipped statements, and none is left when the lowering ended, with or
\* without a compile error.
RECURSIVE DepthFrom(_, _)
DepthFrom(frames, i) ==
    IF i = 0 THEN 0 ELSE 1 + DepthFrom(frames, frames[i].prev)

\* the frames pushed and not popped
Depth == DepthFrom(scope.frames, scope.current) - 1

PoppedOnExit == phase # "error" => Depth = Len(ctl)

PoppedOnError == phase = "error" => Depth = 0

C23_ScopePopOnEveryExit == PoppedOnExit /\ PoppedOnError


\* ---------------------------------------------------------------------
\* C24: a tuple assignment whose targets and right-hand-side elements differ
\* in number, at any nesting depth, raises the arity error, attaches no
\* binding of that assignment and leaves fsm.current as it is; when the
\* numbers match, target k is bound to element k in the entry state; a
\* single target takes any right-hand side, a tuple too.
RECURSIVE Mismatch(_, _)
\* somewhere in target t more than one target stands against a tuple of
\* another length
Mismatch(t, v) ==
    /\ t.tuple /\ Len(t.elts) > 1 /\ v.tuple
    /\ \/ Len(t.elts) # Len(v.elts)
       \/ \E i \in DOMAIN t.elts : Mismatch(t.elts[i], v.elts[i])

RECURSIVE Unpacks(_, _)
\* every tuple of more than one target stands against a tuple of its length
Unpacks(t, v) ==
    (t.tuple /\ Len(t.elts) > 1) =>
        /\ v.tuple
        /\ Len(t.elts) = Len(v.elts)
        /\ \A i \in DOMAIN t.elts : Unpacks(t.elts[i], v.elts[i])

RECURSIVE Pairing(_, _)
RECURSIVE PairingFrom(_, _, _)
\* the single targets of t, in order, each with the value that stands
\* against it
Pairing(t, v) ==
    IF ~t.tuple THEN <<[s |-> t.s, v |-> v]>>
    ELSE IF Len(t.elts) = 1 THEN <<[s |-> t.elts[1].s, v |-> v]>>
    ELSE PairingFrom(t, v, 1)

PairingFrom(t, v, i) ==
    IF i > Len(t.elts) THEN <<>>
    ELSE Pairing(t.elts[i], v.elts[i]) \o PairingFrom(t, v, i + 1)

RECURSIVE PairingAll(_, _, _)
PairingAll(ts, v, i) ==
    IF i > Len(ts) THEN <<>>
    ELSE Pairing(ts[i], v) \o PairingAll(ts, v, i + 1)

RECURSIVE Numerical(_)
\* the pairs whose value goes to a register
Numerical(ps) ==
    IF ps = <<>> THEN <<>>
    ELSE (IF Head(ps).v.tuple THEN <<>> ELSE <<Head(ps)>>)
         \o Numerical(Tail(ps))

\* the assignment that is lowered next
Assigning ==
    /\ phase = "lower"
    /\ todo # <<>>
    /\ Head(todo).t = "assigns"
    /\ ~skip(scope)

\* the register of name s: the one it had, or the one that the visit of the
\* targets declared
Declared(s) ==
    IF searchVariable(scope, Name(s), TRUE) # None
    THEN searchVariable(scope, Name(s), TRUE).reg
    ELSE searchVariable(scope', Name(s), TRUE).reg

ArityErrorEmitsNothing ==
    (Assigning /\ \E i \in DOMAIN Head(todo).targets :
                      Mismatch(Head(todo).targets[i], Head(todo).value))
        => /\ phase' = "error"
           /\ fsm' = fsm

BoundElementwise ==
    (Assigning /\ \A i \in DOMAIN Head(todo).targets :
                      Unpacks(Head(todo).targets[i], Head(todo).value))
        => LET ps == PairingAll(Head(todo).targets, Head(todo).value, 1)
               ns == Numerical(ps)
           IN /\ phase' = "lower"
              /\ fsm'.current = fsm.current + 1
              /\ Len(fsm'.stmts) = Len(fsm.stmts) + Len(ns)
              /\ \A k \in DOMAIN ns :
                    fsm'.stmts[Len(fsm.stmts) + k] =
                        [state |-> fsm.current,
                         var |-> Declared(ns[k].s),
                         value |-> visit(Machine, ns[k].v.e)]
              /\ \A k \in DOMAIN ps :
                    ps[k].v.tuple =>
                        \/ searchVariable(scope', Name(ps[k].s), TRUE)
                              = TupleObj(Len(ps[k].v.elts))
                        \/ \E j \in DOMAIN ps : j > k /\ ps[j].s = ps[k].s

C24_TupleArity == [][ArityErrorEmitsNothing /\ BoundElementwise]_vars

C24_Elementwise == [][BoundElementwise]_vars

C24_TopLevelArity ==
    [][(Assigning /\ \E i \in DOMAIN Head(todo).targets :
            LET t == Head(todo).targets[i] IN
            /\ t.tuple /\ Len(t.elts) > 1 /\ Head(todo).value.tuple
            /\ Len(t.elts) # Len(Head(todo).value.elts)
            /\ \A j \in 1..(i - 1) : ~Head(todo).targets[j].tuple)
        => phase' = "error" /\ fsm' = fsm]_vars


\* ---------------------------------------------------------------------
\* C25: lowering always ends: a program whose functions do not call
\* themselves is lowered to its end, and a call of a function from inside
\* that function stops the lowering with an error at that call, which
\* allocates no further state.
\* the call lowered next is a call of a function that is being inlined
Recursing ==
    /\ phase = "lower"
    /\ todo # <<>>
    /\ Head(todo).t = "calldef"
    /\ ~skip(scope)
    /\ \E a \in Range(ctl) : a.f = Head(todo).f

RecursionStops == Recursing => (phase' = "error" /\ fsm' = fsm)

C25_RecursionDetected == [][RecursionStops]_vars

\* the functions that call no function that is open are inlined to the end
C25_AcyclicCompletes ==
    (phase = "error") => \E a \in Range(ctl) : a.f = "rec"


\* ---------------------------------------------------------------------
\* C26: a statement outside the accepted language (an import, a class, a
\* statement of any other type, a for loop over something that is no call
\* of range) stops the lowering with an error and emits nothing: it is
\* neither passed over nor visited as if it were its body.
NextIs(types) ==
    /\ phase = "lower"
    /\ todo # <<>>
    /\ Head(todo).t \in types

Rejected ==
    /\ phase' = "error"
    /\ fsm' = fsm
    /\ regs' = regs

C26_UnsupportedRejected ==
    [][NextIs({"import", "forin", "assert", "try"}) => Rejected]_vars

\* the three types that have a handler are rejected
C26_ImportRejected == [][NextIs({"import"}) => Rejected]_vars


\* ---------------------------------------------------------------------
\* C27: extend lowers into the FSM it was given, from the state that was
\* current: the transitions and statements recorded before stay as they
\* were, every transition added leaves a state that is not below that
\* state, and fsm.current never decreases; create lowers into a new FSM
\* that starts at its initial state.
ExtendKeeps ==
    LET e == hist.entry.fsm IN
    /\ Len(fsm.trans) >= Len(e.trans)
    /\ SubSeq(fsm.trans, 1, Len(e.trans)) = e.trans
    /\ Len(fsm.stmts) >= Len(e.stmts)
    /\ SubSeq(fsm.stmts, 1, Len(e.stmts)) = e.stmts
    /\ \A i \in (Len(e.trans) + 1)..Len(fsm.trans) :
          fsm.trans[i].src >= e.current
    /\ fsm.current >= e.current

CreateIsNew == hist.entry.op = "create" => hist.entry.fsm = NewFSM(0)

\* a lowering starts on the FSM of its entry; no step of it takes a state
\* back
StartsAtEntry ==
    IF phase = "done" /\ phase' = "lower"
    THEN /\ fsm' = hist'.entry.fsm
         /\ hist'.entry.op = "extend" => fsm' = fsm
    ELSE fsm'.current >= fsm.current

C27_ExtendContinuesFsm ==
    [](ExtendKeeps /\ CreateIsNew) /\ [][StartsAtEntry]_vars

\* an extend of an FSM that had states, transitions and statements has
\* added some of each; and a create after a lowering started a new FSM
C27_Witness ==
    /\ phase = "done"
    /\ hist.entry.op = "extend"
    /\ hist.entry.fsm.current > 1
    /\ hist.entry.fsm.stmts # <<>>
    /\ Len(fsm.trans) > Len(hist.entry.fsm.trans) + 1
    /\ Len(fsm.stmts) > Len(hist.entry.fsm.stmts)
    /\ fsm.current > hist.entry.fsm.current + 1


\* ---------------------------------------------------------------------
\* C28: an assignment or augmented assignment that is not skipped and calls
\* nothing takes exactly one state: its bindings, those of every target and
\* of every element of a tuple, are attached to the entry state s, one
\* transition s -> s + 1 without a condition is recorded and fsm.current
\* becomes s + 1; the expressions, conditional ones too, take no state.
\* the number of bindings that the statement lowered next attaches
Bindings(tok) ==
    IF tok.t = "assigns"
    THEN Len(Numerical(PairingAll(tok.targets, tok.value, 1)))
    ELSE 1

AssignTakesOneState ==
    (/\ phase = "lower"
     /\ todo # <<>>
     /\ Head(todo).t \in {"assign", "augassign", "assigns"}
     /\ ~skip(scope)
     /\ phase' = "lower")
        => /\ fsm'.current = fsm.current + 1
           /\ fsm'.trans = Append(fsm.trans,
                                  [src |-> fsm.current,
                                   dst |-> fsm.current + 1,
                                   cond |-> None, else_dst |-> NoState])
           /\ Len(fsm'.stmts) = Len(fsm.stmts) + Bindings(Head(todo))
           /\ SubSeq(fsm'.stmts, 1, Len(fsm.stmts)) = fsm.stmts
           /\ \A i \in (Len(fsm.stmts) + 1)..Len(fsm'.stmts) :
                 fsm'.stmts[i].state = fsm.current

C28_AssignTakesOneState == [][AssignTakesOneState]_vars

\* a = 1 ; b = 2 ; a, b = b, a  was lowered: both registers are assigned in
\* state 3, each from the other, and state 4 follows
C28_Witness ==
    /\ phase = "done"
    /\ fsm.current = 4
    /\ Len(fsm.stmts) = 4
    /\ fsm.stmts[3].state = 3 /\ fsm.stmts[4].state = 3
    /\ fsm.stmts[3].var.base = "a" /\ fsm.stmts[3].value = Var(fsm.stmts[4].var)
    /\ fsm.stmts[4].var.base = "b" /\ fsm.stmts[4].value = Var(fsm.stmts[3].var)
    /\ Len(fsm.trans) = 4


\* ---------------------------------------------------------------------
\* C29: a break or continue that no loop encloses raises no error and takes
\* one state; the statements after it in its function are skipped; the
\* clean-up of the call drops its pending patch, so its state has no
\* transition leaving it: the FSM that reaches this state stays in it and
\* does not get to the state that follows the call.
BareJumps ==
    {j \in Range(hist.jumps) : j.kind \in {"brk", "cont"} /\ j.owner = 0}

\* the call whose body holds the jump, once it is closed
CallsAround(j) ==
    {b \in Range(hist.blocks) :
        b.kind = "call" /\ b.s <= j.state /\ j.state < b.e}

CallAround(j) == {b \in CallsAround(j) : \A c \in CallsAround(j) : c.s <= b.s}

BareJumpLowered ==
    /\ phase # "error"
    /\ \A j \in BareJumps :
          /\ fsm.current > j.state
          /\ ~\E t \in Range(fsm.trans) : t.src = j.state
          /\ \A st \in Range(fsm.stmts) :
                st.state > j.state => \A b \in CallAround(j) : st.state >= b.e
          /\ \A b \in CallAround(j) : b.e = j.state + 1

BareJumpHolds ==
    phase = "run" =>
        \A j \in BareJumps :
            /\ hw.state <= j.state
            /\ \A i \in DOMAIN hw.trace : hw.trace[i].state <= j.state

C29_BareJumpNeverLeft == BareJumpLowered /\ BareJumpHolds

\* the FSM stands in the state of a break inside an inlined function, after
\* some clock edges; the statements after the call were given states
C29_Witness ==
    /\ phase = "run"
    /\ hw.trace # <<>>
    /\ \E j \in BareJumps :
          /\ hw.state = j.state
          /\ j.kind = "brk"
          /\ \E b \in CallAround(j) : b.s > 1 /\ fsm.current > b.e


\* ---------------------------------------------------------------------
\* C30: at every point of a lowering each state has at most one transition
\* record, with or without a condition, whatever constructs were lowered:
\* the transition table never holds two transitions for one state.
Records(f, s) == {i \in DOMAIN f.trans : f.trans[i].src = s}

OneRecord(f) == \A s \in 0..f.current : Cardinality(Records(f, s)) <= 1

C30_OneTransitionPerState ==
    /\ OneRecord(fsm)
    /\ \A k \in DOMAIN threads : OneRecord(threads[k].thread_fsm)


\* a finished lowering with a two-target record, a loop-back record and the
\* patched states of a break and of a return, each state with one record
JumpRecorded(kind) ==
    \E j \in Range(hist.jumps) :
        j.kind = kind /\ Cardinality(Records(fsm, j.state)) = 1

C30_Witness ==
    /\ phase = "done"
    /\ \E i \in DOMAIN fsm.trans : fsm.trans[i].else_dst # NoState
    /\ \E i \in DOMAIN fsm.trans : fsm.trans[i].dst < fsm.trans[i].src
    /\ JumpRecorded("brk")
    /\ JumpRecorded("ret")


\* ---------------------------------------------------------------------
\* the clock edges at which the thread enters state s, the number of
\* consecutive edges it spends there from edge i on, and whether it has
\* left the state after them
Entries(s) == {i \in EdgesIn(s) : i = 1 \/ hw.trace[i - 1].state # s}

RECURSIVE StayFrom(_, _)
StayFrom(s, i) ==
    IF i > Len(hw.trace) \/ hw.trace[i].state # s THEN 0
    ELSE 1 + StayFrom(s, i + 1)

HasLeft(s, i) == AfterEdge(i + StayFrom(s, i) - 1).state # s

\* the stay that begins at edge i of state s lasts n clock cycles
Stays(s, i, n) ==
    /\ StayFrom(s, i) <= n
    /\ HasLeft(s, i) => StayFrom(s, i) = n

SleepState(c) == hist.calls[c].fsm.current
SleepCycles(c) == hist.calls[c].args[1].k
FirstEntry(s) == {i \in Entries(s) : \A j \in Entries(s) : i <= j}

\* C31: every stay of the executed FSM in the state of a sleep(cycles),
\* the first one and every re-entry when the sleep is in a loop, lasts
\* cycles + 1 clock cycles.
C31_SleepSameLength ==
    phase = "run" =>
        \A c \in CallsOf("sleep") : \A i \in Entries(SleepState(c)) :
            Stays(SleepState(c), i, SleepCycles(c) + 1)

\* the first stay lasts cycles + 1 clock cycles
C31_FirstStay ==
    phase = "run" =>
        \A c \in CallsOf("sleep") : \A i \in FirstEntry(SleepState(c)) :
            Stays(SleepState(c), i, SleepCycles(c) + 1)

\* a later stay lasts until the counter, never reset, has wrapped around
\* its width to cycles again: 2 ^ (cycles.bit_length() + 1) clock cycles
C31_LaterStay ==
    phase = "run" =>
        \A c \in CallsOf("sleep") :
            \A i \in Entries(SleepState(c)) \ FirstEntry(SleepState(c)) :
                Stays(SleepState(c), i, 2 ^ WidthAsCoded(SleepCycles(c)))

\* while c: thgen.sleep(1) was executed: the second stay in the state of
\* the sleep was left after 4 clock cycles, the first after 2
C31_SecondStay ==
    /\ phase = "run"
    /\ \E c \in CallsOf("sleep") :
          /\ SleepCycles(c) = 1
          /\ \E i, j \in Entries(SleepState(c)) :
                /\ i < j
                /\ StayFrom(SleepState(c), i) = 2
                /\ HasLeft(SleepState(c), j)
                /\ StayFrom(SleepState(c), j) = 4


\* ---------------------------------------------------------------------
\* the closed loops whose test was a call, with the call: w.s = c.s is the
\* first state emitted for the test, c.e the state after the call
\* (begin_count), w.e the state after the loop
Block(kind, id) ==
    {b \in Range(hist.blocks) : b.kind = kind /\ b.id = id}

TestCalls ==
    {c \in Range(hist.blocks) : c.kind = "call" /\ Block("while", c.id) # {}}

\* the targets of the back-edge of the loop w and of its continue patches
BackEdges(w) ==
    {fsm.trans[i].dst : i \in LeavingFrom(w.e - 1)} \cup
    {q.dst : q \in {r \in Range(hist.patches) :
                        r.kind = "cont" /\ r.by = w.id}}

\* between two visits of state s the executed thread was in state t
Between(s, t) ==
    \A i, j \in EdgesIn(s) :
        i < j => \E k \in EdgesIn(t) : i < k /\ k < j

\* C32: the back-edge and the continue patches of a while loop whose test is
\* an inlined call lead to a state at or before the first state of that
\* call, and the executed FSM passes through the states of the call before
\* every decision of the branch.
C32_TestReexecuted ==
    \A c \in TestCalls : \A w \in Block("while", c.id) :
        /\ \A d \in BackEdges(w) : d <= c.s
        /\ phase = "run" => Between(c.e, c.s)

\* the back-edge and the continue patches lead to begin_count, the state
\* after the call, which holds the branch
C32_BackEdgeAfterCall ==
    \A c \in TestCalls : \A w \in Block("while", c.id) :
        /\ c.s < c.e
        /\ BackEdges(w) = {c.e}
        /\ \E i \in LeavingFrom(c.e) :
              fsm.trans[i] = [src |-> c.e, dst |-> c.e + 1, cond |-> w.test,
                              else_dst |-> w.e]
        /\ phase = "run" => Cardinality(EdgesIn(c.s)) <= 1

\* x = 1 ; while f(x): x = 0  was executed: x is 0, the return register of
\* f still holds 1 from the one execution of the call, and the branch was
\* taken on it for the third time
C32_StaleTest ==
    /\ phase = "run"
    /\ \E c \in TestCalls :
          /\ c.result.kind = "Var"
          /\ Cardinality(EdgesIn(c.e)) >= 3
          /\ Cardinality(EdgesIn(c.s)) = 1
          /\ hw.val[RegIndex(c.result.reg)] = 1
          /\ \E r \in DOMAIN regs : regs[r].base = "x" /\ hw.val[r] = 0

====
